---- MODULE Spec2Model ----
(***************************************************************************)
(* Dispatch engine of tera-proxy-game (lib/connection/dispatch/index.js):  *)
(* hook registry, deferred hook registration, module load/unload and the   *)
(* per-message hook chain.                                                 *)
(*                                                                         *)
(* JavaScript objects whose identity matters (hook records, queue entries) *)
(* are modelled by references: a hook is a number into `heap`.             *)
(* Buffers are sequences of bytes; names are sequences of characters.      *)
(***************************************************************************)
EXTENDS Integers, Sequences, FiniteSets, TLC

VARIABLES
  protocolVersion,  \* Dispatch.protocolVersion
  protocolMap,      \* Dispatch.protocolMap: the mapped version, 0 = undefined
  hooks,            \* Dispatch.hooks: code -> list of { order, hooks }
  queuedHooks,      \* Dispatch.queuedHooks: list of { hook, args }
  modules,          \* Dispatch.modules: name -> instance
  connection,       \* Dispatch.connection: the Connection and its two sockets
  heap,             \* the hook objects handed out by hook(), by reference
  nextRef,          \* number of hook objects created so far
  destructorCalls,  \* per module name: how often instance.destructor() ran
  loads,            \* number of load() calls that built an instance
  revoked,          \* hook objects whose owning module has been unloaded since
  unhooked,         \* hook objects passed to unhook() while they were queued
  cleared,          \* hook objects handed out before the latest reset() was called
  regOrder,         \* hook objects in the order addHook() inserted them
  last,             \* the last API call and what it returned
  run,              \* the last handle() call: what ran and what came out
  server            \* createServer: the dispatchers made for the accepted sockets

vars == <<protocolVersion, protocolMap, hooks, queuedHooks, modules, connection, heap,
          nextRef, destructorCalls, loads, revoked, unhooked, cleared, regOrder,
          last, run, server>>

---------------------------------------------------------------------------
(* Bounds of the model *)

MaxHooks == 3
MaxLoads == 2
MaxEvents == 8

\* hook objects a behaviour can create
MaxRefs == MaxHooks + 1

---------------------------------------------------------------------------
(* Small helpers *)

Range(s) == {s[i] : i \in 1..Len(s)}

RECURSIVE Concat(_)
Concat(ss) == IF ss = <<>> THEN <<>> ELSE Head(ss) \o Concat(Tail(ss))

InsertAt(s, i, x) == SubSeq(s, 1, i) \o <<x>> \o SubSeq(s, i + 1, Len(s))

Tri(b) == IF b THEN "true" ELSE "false"

---------------------------------------------------------------------------
(* Registry keys.  Opcodes are unsigned 16-bit; the two string keys of the *)
(* Map ('*' and '_UNKNOWN') and the missing property `undefined` lie       *)
(* outside that range.                                                     *)

Star == 65536
UnknownCode == 65537
NoCode == 65538

CheckVersionCode == 19900

---------------------------------------------------------------------------
(* The codec (tera-data-parser), by its interface.  One protocol version   *)
(* has an opcode map; message S_A has definition version 1 with one byte   *)
(* of payload, C_CHECK_VERSION has definition version 1 with an array of   *)
(* at most one { index, value } item.                                      *)

MappedVersions == {1}
UnmappedVersions == {2}

NameSA == <<"S", "_", "A">>
NameCheckVersion == <<"C", "_", "C", "H", "E", "C", "K", "_", "V", "E", "R", "S", "I", "O", "N">>
CodeA == 18 + 256 * 52

ProtocolMapsGet(version) == IF version \in MappedVersions THEN version ELSE 0

FirstMapVersion == CHOOSE v \in MappedVersions : \A w \in MappedVersions : v <= w

MapNameGet(map, name) ==
  IF name = NameSA THEN CodeA
  ELSE IF name = NameCheckVersion THEN CheckVersionCode
  ELSE NoCode

KnownCodes == {CodeA, CheckVersionCode}

DefVersions(code) == IF code \in KnownCodes THEN {"1"} ELSE {}

\* number of payload bytes the definition reads
SchemaLen(code, data) ==
  IF code = CodeA THEN 1
  ELSE IF Len(data) = 4 THEN 0 ELSE 2

\* protocol.parse: the event, or an Error
ProtocolParse(version, code, defVersion, data) ==
  IF \/ version \notin MappedVersions
     \/ code \notin KnownCodes
     \/ (defVersion # "*" /\ defVersion \notin DefVersions(code))
     \/ Len(data) < 4 + SchemaLen(code, data)
  THEN [error |-> TRUE, fields |-> <<>>]
  ELSE [error |-> FALSE, fields |-> SubSeq(data, 5, 4 + SchemaLen(code, data))]

\* protocol.write: the message bytes, or an Error
ProtocolWrite(version, code, defVersion, fields) ==
  IF \/ version \notin MappedVersions
     \/ code \notin KnownCodes
     \/ (defVersion # "*" /\ defVersion \notin DefVersions(code))
     \/ (code = CodeA /\ Len(fields) # 1)
  THEN [error |-> TRUE, data |-> <<>>]
  ELSE [error |-> FALSE,
        data |-> <<(4 + Len(fields)) % 256, (4 + Len(fields)) \div 256,
                   code % 256, code \div 256>> \o fields]

ReadUInt16LE(data, offset) == data[offset + 1] + 256 * data[offset + 2]

---------------------------------------------------------------------------
(* normalizeName *)

LowerCase == <<"a", "e", "i", "m", "n", "o", "p", "r", "s", "u">>
UpperCase ==
  [c \in Range(LowerCase) |->
     <<"A", "E", "I", "M", "N", "O", "P", "R", "S", "U">>[CHOOSE i \in DOMAIN LowerCase : LowerCase[i] = c]]
IsUpper(c) == c \in {"A", "B", "C", "E", "F", "H", "I", "K", "M", "N", "O", "P", "R", "S", "U", "V", "X"}
ToUpper(c) == IF c \in DOMAIN UpperCase THEN UpperCase[c] ELSE c

SpecialName == <<"s", "F", "2", "p", "P", "r", "e", "m", "i", "u", "m", "U", "s", "e", "r",
                 "P", "e", "r", "m", "i", "s", "s", "i", "o", "n">>
SpecialNormalized == <<"S", "_", "F", "2", "P", "_", "P", "r", "e", "m", "i", "u", "m",
                       "U", "s", "e", "r", "_", "P", "e", "r", "m", "i", "s", "s", "i", "o", "n">>

\* a normalizeName without the line for the one exceptional name
normalizeNameRegular(name) ==
  IF "_" \notin Range(name)
  THEN Concat([i \in 1..Len(name) |->
                 IF IsUpper(name[i]) THEN <<"_", ToUpper(name[i])>>
                 ELSE <<ToUpper(name[i])>>])
  ELSE name

normalizeName(name) ==
  IF name = SpecialName THEN SpecialNormalized
  ELSE IF "_" \notin Range(name)
       THEN Concat([i \in 1..Len(name) |->
                      IF IsUpper(name[i]) THEN <<"_", ToUpper(name[i])>>
                      ELSE <<ToUpper(name[i])>>])
       ELSE name

---------------------------------------------------------------------------
(* Hook objects *)

FilterFields == {"fake", "incoming", "modified", "silenced"}

DefaultFilter == [fake |-> "false", incoming |-> "null", modified |-> "null", silenced |-> "false"]

\* the object `{}` hook() starts from; kept says that the one Buffer object
\* a callback of kind kept returns each time it is called has been given
\* the flag properties by an earlier handle call
EmptyObj ==
  [made |-> FALSE, code |-> NoCode, order |-> 0, filter |-> DefaultFilter,
   definitionVersion |-> "", callback |-> "", moduleName |-> "", kept |-> FALSE]

IsNumber(version) == version \in {"1", "2"}

\* createHook(base, name, version, opts, cb): the fields assigned to base, or a throw
createHook(map, base, args) ==
  LET cb == IF args.cb = "missing" THEN "noop" ELSE args.cb
      star == args.name = <<"*">>
      normalizedName == normalizeName(args.name)
      looked == MapNameGet(map, normalizedName)
      code == IF star THEN Star
              ELSE IF looked = NoCode THEN UnknownCode ELSE looked
      version == IF IsNumber(args.version) THEN args.version
                 ELSE IF args.version \in {"*", "raw"} THEN args.version
                 ELSE "*"
      optsFilter == args.filter
      merged == [f \in FilterFields |->
                   IF f \in DOMAIN optsFilter THEN optsFilter[f] ELSE DefaultFilter[f]]
      filter == IF args.type = "all" THEN [merged EXCEPT !.fake = "null"]
                ELSE IF args.type = "fake" THEN [merged EXCEPT !.fake = "true"]
                ELSE IF args.type = "real" THEN [merged EXCEPT !.fake = "false"]
                ELSE merged
  IN IF star /\ IsNumber(args.version)
     THEN [threw |-> TRUE, obj |-> base]      \* log.error([...]).join: TypeError
     ELSE IF ~star /\ map = 0
     THEN [threw |-> TRUE, obj |-> base]      \* this.protocolMap.name: TypeError
     ELSE [threw |-> FALSE,
           obj |-> [base EXCEPT !.made = TRUE, !.code = code, !.filter = filter,
                                !.order = args.order, !.definitionVersion = version,
                                !.callback = cb]]

---------------------------------------------------------------------------
(* The registry *)

\* binary-search: index of the group with this order, or ~low
RECURSIVE binarySearch(_, _, _, _)
binarySearch(ordering, order, low, high) ==
  IF low > high THEN 0 - low - 1
  ELSE LET mid == low + ((high - low) \div 2)
           cmp == ordering[mid + 1].order - order
       IN IF cmp < 0 THEN binarySearch(ordering, order, mid + 1, high)
          ELSE IF cmp > 0 THEN binarySearch(ordering, order, low, mid - 1)
          ELSE mid

RegGet(reg, code) == IF code \in DOMAIN reg THEN reg[code] ELSE <<>>

RegSet(reg, code, ordering) ==
  [c \in DOMAIN reg \cup {code} |-> IF c = code THEN ordering ELSE reg[c]]

\* the hooks of one code's group list, group after group
Flat(ordering) == Concat([i \in 1..Len(ordering) |-> ordering[i].hooks])

\* every hook in the registry
Live(reg) == UNION {Range(Flat(reg[c])) : c \in DOMAIN reg}

\* the hooks of the group of one order under one code, as the registry holds
\* them now
GroupHooks(reg, code, order) ==
  UNION {Range(RegGet(reg, code)[i].hooks) :
           i \in {j \in 1..Len(RegGet(reg, code)) : RegGet(reg, code)[j].order = order}}

\* an addHook that puts every hook into a new group at the end of the list
addHookAppend(d, ref) ==
  LET code == d.heap[ref].code
      order == d.heap[ref].order
      ordering == RegGet(d.hooks, code)
  IN [d EXCEPT !.hooks = RegSet(d.hooks, code,
                                Append(ordering, [order |-> order, hooks |-> <<ref>>])),
               !.regOrder = Append(@, ref)]

\* addHook(hook)
addHook(d, ref) ==
  LET code == d.heap[ref].code
      order == d.heap[ref].order
      ordering == RegGet(d.hooks, code)
      index == binarySearch(ordering, order, 0, Len(ordering) - 1)
      reg == IF index < 0
             THEN RegSet(d.hooks, code,
                         InsertAt(ordering, 0 - index - 1, [order |-> order, hooks |-> <<ref>>]))
             ELSE RegSet(d.hooks, code, [ordering EXCEPT ![index + 1].hooks = Append(@, ref)])
  IN [d EXCEPT !.hooks = reg, !.regOrder = Append(@, ref)]

\* iterateHooks with the tie between equal orders decided the other way
RECURSIVE iterateHooksStrict(_, _)
iterateHooksStrict(globalHooks, codeHooks) ==
  IF globalHooks = <<>> /\ codeHooks = <<>> THEN <<>>
  ELSE IF globalHooks # <<>> /\ (codeHooks = <<>> \/ Head(globalHooks).order < Head(codeHooks).order)
       THEN Head(globalHooks).hooks \o iterateHooksStrict(Tail(globalHooks), codeHooks)
       ELSE Head(codeHooks).hooks \o iterateHooksStrict(globalHooks, Tail(codeHooks))

\* merged iteration over the groups of '*' and of one code
RECURSIVE iterateHooks(_, _)
iterateHooks(globalHooks, codeHooks) ==
  IF globalHooks = <<>> /\ codeHooks = <<>> THEN <<>>
  ELSE IF globalHooks # <<>> /\ (codeHooks = <<>> \/ Head(globalHooks).order <= Head(codeHooks).order)
       THEN Head(globalHooks).hooks \o iterateHooks(Tail(globalHooks), codeHooks)
       ELSE Head(codeHooks).hooks \o iterateHooks(globalHooks, Tail(codeHooks))

---------------------------------------------------------------------------
(* PacketBuffer and Encryption are required by the Connection but are not  *)
(* part of the sources; they follow their contracts.  A datagram is a      *)
(* record: its bytes, and the stack of keystreams it is sealed with (none  *)
(* for plaintext).  Applying a keystream to a datagram sealed with it      *)
(* unseals it, applying it to anything else seals it.                      *)

KeyLength == 128

Plain(bytes) == [key |-> <<>>, bytes |-> bytes]

Apply(session, op, data) ==
  IF data.key # <<>> /\ Head(data.key) = <<session, op>>
  THEN [data EXCEPT !.key = Tail(@)]
  ELSE [data EXCEPT !.key = <<<<session, op>>>> \o @]

\* new Encryption: four blank keys, not initialized
NewSession == [clientKeys |-> <<<<>>, <<>>>>, serverKeys |-> <<<<>>, <<>>>>, inits |-> 0]

\* PacketBuffer.write(data)
BufferWrite(buffer, data) == buffer \o data.bytes

\* PacketBuffer.read(): the first complete message, <<>> when there is none
BufferPeek(buffer) ==
  IF Len(buffer) < 2 THEN <<>>
  ELSE IF ReadUInt16LE(buffer, 0) < 4 \/ Len(buffer) < ReadUInt16LE(buffer, 0) THEN <<>>
  ELSE SubSeq(buffer, 1, ReadUInt16LE(buffer, 0))

BufferRest(buffer) == SubSeq(buffer, Len(BufferPeek(buffer)) + 1, Len(buffer))

---------------------------------------------------------------------------
(* The Connection.  socket is the accepted (client-side) socket, client    *)
(* the outbound (server-side) one; each is "open" while the field holds    *)
(* it, "ended" once close() has ended it and cleared the field, "closed"   *)
(* once its 'close' event has fired.  wire lists what was written to the   *)
(* two sockets, in order; framed lists the messages the drain loops read;  *)
(* events counts the 'data' events and input is the datagram of the latest *)
(* one; linked says that the dispatcher's connection field holds it;       *)
(* fromClient and fromServer are the plaintext of what each peer has sent  *)
(* in steady state; trail lists, in the order they ran, the cipher calls   *)
(* of the two sessions and the handle calls of the drain loops.            *)

NewConnection ==
  [linked |-> TRUE, state |-> -1, connected |-> FALSE, socket |-> "open", client |-> "open",
   dispatch |-> TRUE, session1 |-> NewSession, session2 |-> NewSession,
   clientBuffer |-> <<>>, serverBuffer |-> <<>>, wire |-> <<>>, framed |-> <<>>,
   events |-> 0, input |-> Plain(<<>>), fromClient |-> <<>>, fromServer |-> <<>>,
   trail |-> <<>>]

\* session.encrypt(data) or session.decrypt(data) in place; by names the caller
Ciphered(c, session, op, by, data) ==
  [c EXCEPT !.trail = Append(@, [step |-> session, op |-> op, by |-> by,
                                 data |-> data, out |-> Apply(session, op, data)])]

\* this.dispatch.handle(...) of a drain loop has returned out (<<>> for false)
Handled(c, msg, out) ==
  [c EXCEPT !.trail = Append(@, [step |-> "dispatch", op |-> "handle", by |-> "drain",
                                 data |-> Plain(msg), out |-> Plain(out)])]

\* socket.write(data) on one of the two sockets
Written(c, to, via, data) ==
  [c EXCEPT !.wire = Append(@, [to |-> to, via |-> via, data |-> data])]

---------------------------------------------------------------------------
(* The Dispatch object as a record, so that its methods compose.           *)
(* threw: the call raised; ref: the hook object returned; ok: the boolean  *)
(* (or non-null) result; handled: the handle call write made; constructed: *)
(* load invoked the module constructor.                                    *)

NoHandled ==
  [exit |-> "none", msg |-> <<>>, incoming |-> FALSE, fake |-> FALSE, calls |-> <<>>,
   out |-> <<>>]

Self ==
  [protocolVersion |-> protocolVersion, protocolMap |-> protocolMap, hooks |-> hooks,
   queuedHooks |-> queuedHooks, modules |-> modules, connection |-> connection,
   heap |-> heap, nextRef |-> nextRef,
   destructorCalls |-> destructorCalls, regOrder |-> regOrder,
   threw |-> FALSE, ref |-> 0, ok |-> FALSE, handled |-> NoHandled, constructed |-> FALSE]

\* identity of the two kinds of object that unhook() compares
HookId(ref) == <<"hook", ref>>
QueueEntryId(entry) == <<"queued", entry.hook>>

\* the for-of loop of setProtocolVersion over the detached queue
RECURSIVE drainQueued(_, _)
drainQueued(d, queue) ==
  IF queue = <<>> THEN d
  ELSE LET queued == Head(queue)
           created == createHook(d.protocolMap, d.heap[queued.hook], queued.args)
       IN IF created.threw THEN [d EXCEPT !.threw = TRUE]
          ELSE drainQueued(addHook([d EXCEPT !.heap[queued.hook] = created.obj], queued.hook),
                           Tail(queue))

\* setProtocolVersion(version)
setProtocolVersion(d, version) ==
  LET map == ProtocolMapsGet(version)
      d1 == [d EXCEPT !.protocolVersion = version, !.protocolMap = map]
  IN IF map = 0 THEN d1
     ELSE drainQueued([d1 EXCEPT !.queuedHooks = <<>>], d.queuedHooks)

\* hook that registers at once, whether or not the protocol version is known
hookEager(d, args) ==
  LET ref == d.nextRef + 1
      created == createHook(d.protocolMap, EmptyObj, args)
  IN IF created.threw THEN [d EXCEPT !.threw = TRUE]
     ELSE addHook([d EXCEPT !.heap[ref] = created.obj, !.nextRef = ref, !.ref = ref], ref)

\* hook(...args)
hook(d, args) ==
  LET ref == d.nextRef + 1
  IN IF d.protocolVersion = 0
     THEN [d EXCEPT !.queuedHooks = Append(@, [hook |-> ref, args |-> args]),
                    !.nextRef = ref, !.ref = ref]
     ELSE LET created == createHook(d.protocolMap, EmptyObj, args)
          IN IF created.threw THEN [d EXCEPT !.threw = TRUE]
             ELSE addHook([d EXCEPT !.heap[ref] = created.obj, !.nextRef = ref, !.ref = ref],
                          ref)

\* hookFromModule(name, ...args): hook(), with the hook tagged by the module's name
hookFromModule(d, name, args) ==
  LET d1 == hook(d, args)
  IN IF d1.threw THEN d1 ELSE [d1 EXCEPT !.heap[d1.ref].moduleName = name]

\* DispatchWrapper.hook
WrapperHook(d, moduleName, args) == hookFromModule(d, moduleName, args)

\* unhook(hook)
unhook(d, ref) ==
  IF d.protocolVersion = 0
  THEN LET Keep(h) == QueueEntryId(h) # HookId(ref)
       IN [d EXCEPT !.queuedHooks = SelectSeq(@, Keep)]
  ELSE LET hk == d.heap[ref]
       IN IF hk.code \notin DOMAIN d.hooks THEN d
          ELSE LET ordering == d.hooks[hk.code]
                   found == {i \in 1..Len(ordering) : ordering[i].order = hk.order}
                   Keep(h) == h # ref
               IN IF found = {} THEN d
                  ELSE LET i == CHOOSE j \in found : \A k \in found : j <= k
                       IN [d EXCEPT !.hooks[hk.code][i].hooks = SelectSeq(@, Keep)]

\* new ModuleConstructor(wrapper): the hooks the constructor registers through
\* its wrapper, up to the first that raises
RECURSIVE construct(_, _, _)
construct(d, name, requests) ==
  IF requests = <<>> \/ d.threw THEN d
  ELSE construct(WrapperHook(d, name, Head(requests)), name, Tail(requests))

\* load(name, from): ctor is the constructor the loader resolves name to;
\* ctor.hooks lists what it registers through its wrapper before it ends;
\* ctor.throws says whether it returns ("no"), throws an Error ("error") or
\* throws null ("null", on which the catch block's e.message raises);
\* a destructor returns ("ok"), throws an Error ("throws") or throws null
\* ("throwsNull"), "none" standing for a module without destructor
load(d, name, ctor) ==
  IF name \in DOMAIN d.modules THEN [d EXCEPT !.ok = TRUE]
  ELSE CHOOSE r \in
         {IF built.threw
          THEN [built EXCEPT !.threw = FALSE, !.constructed = TRUE, !.ok = FALSE, !.ref = d.ref]
          ELSE IF ctor.throws = "error"
          THEN [built EXCEPT !.constructed = TRUE, !.ok = FALSE, !.ref = d.ref]
          ELSE IF ctor.throws = "null"
          THEN [built EXCEPT !.constructed = TRUE, !.threw = TRUE, !.ref = d.ref]
          ELSE [built EXCEPT !.modules = [m \in DOMAIN @ \cup {name} |->
                                            IF m = name
                                            THEN [destructor |-> ctor.destructor]
                                            ELSE @[m]],
                             !.constructed = TRUE,
                             !.ok = TRUE,
                             !.ref = d.ref] :
            built \in {construct(d, name, ctor.hooks)}} : TRUE

\* unload that revokes the hooks of every module, not only of the one named
unloadAnyModule(d, name) ==
  IF name \notin DOMAIN d.modules THEN [d EXCEPT !.ok = FALSE]
  ELSE LET Keep(h) == d.heap[h].moduleName = ""
       IN [d EXCEPT !.hooks = [c \in DOMAIN @ |->
                                 [i \in 1..Len(@[c]) |->
                                    [@[c][i] EXCEPT !.hooks = SelectSeq(@, Keep)]]],
                    !.destructorCalls[name] =
                        IF d.modules[name].destructor # "none" THEN @ + 1 ELSE @,
                    !.modules = IF d.modules[name].destructor = "throwsNull" THEN @
                                ELSE [m \in DOMAIN @ \ {name} |-> @[m]],
                    !.threw = (d.modules[name].destructor = "throwsNull"),
                    !.ok = (d.modules[name].destructor # "throwsNull")]

\* unload(name)
unload(d, name) ==
  IF name \notin DOMAIN d.modules THEN [d EXCEPT !.ok = FALSE]
  ELSE LET Keep(h) == d.heap[h].moduleName # name
       IN [d EXCEPT !.hooks = [c \in DOMAIN @ |->
                                 [i \in 1..Len(@[c]) |->
                                    [@[c][i] EXCEPT !.hooks = SelectSeq(@, Keep)]]],
                    !.destructorCalls[name] =
                        IF d.modules[name].destructor # "none" THEN @ + 1 ELSE @,
                    !.modules = IF d.modules[name].destructor = "throwsNull" THEN @
                                ELSE [m \in DOMAIN @ \ {name} |-> @[m]],
                    !.threw = (d.modules[name].destructor = "throwsNull"),
                    !.ok = (d.modules[name].destructor # "throwsNull")]

\* reset(): unload every module, then clear both maps
RECURSIVE unloadAll(_, _)
unloadAll(d, names) ==
  IF names = {} \/ d.threw THEN d
  ELSE LET name == CHOOSE n \in names : TRUE
       IN unloadAll(unload(d, name), names \ {name})

reset(d) ==
  LET d1 == unloadAll(d, DOMAIN d.modules)
  IN IF d1.threw THEN d1 ELSE [d1 EXCEPT !.modules = <<>>, !.hooks = <<>>]

---------------------------------------------------------------------------
(* Hook callbacks are user code.  A callback is named by what it does:     *)
(*   noop    returns nothing                                               *)
(*   true    returns true            false   returns false                 *)
(*   throw   raises                                                        *)
(*   newbuf  returns a new buffer whose last byte is incremented           *)
(*   copy    returns a new buffer with the same bytes                      *)
(*   mutate  raw: writes the last byte of the buffer in place and returns  *)
(*           nothing; parsed: changes the event and returns true           *)
(*   inject  calls toServer('S_A', 1, event) and returns nothing           *)
(*   unhookNext  calls unhook(h), h being the handle that hook() returned  *)
(*           right after its own, and returns nothing                      *)
(*   unload  calls unload('M1') and returns nothing                        *)

\* Connection.sendClient(data) and Connection.sendServer(data)
sendClient(c, bytes) ==
  IF c.socket # "open" THEN c
  ELSE IF c.state = 2
  THEN Written(Ciphered(c, "session1", "encrypt", "send", Plain(bytes)), "client", "send",
               Apply("session1", "encrypt", Plain(bytes)))
  ELSE Written(c, "client", "send", Plain(bytes))

\* a sendServer that writes what it was given
sendServerUnciphered(c, bytes) ==
  IF c.client # "open" THEN c
  ELSE Written(c, "server", "send", Plain(bytes))

sendServer(c, bytes) ==
  IF c.client # "open" THEN c
  ELSE IF c.state = 2
  THEN Written(Ciphered(c, "session2", "decrypt", "send", Plain(bytes)), "server", "send",
               Apply("session2", "decrypt", Plain(bytes)))
  ELSE Written(c, "server", "send", Plain(bytes))

\* this.connection[outgoing ? 'sendServer' : 'sendClient'](data); return true
Send(d, outgoing, bytes) ==
  [d EXCEPT !.connection = IF outgoing THEN sendServer(@, bytes) ELSE sendClient(@, bytes),
            !.ok = TRUE]

RECURSIVE handle(_, _, _, _)

\* write that sends what it serialized without running the hooks
writeUnhooked(d, outgoing, args) ==
  IF ~d.connection.linked THEN [d EXCEPT !.ok = FALSE]
  ELSE IF args.buffer # <<>> THEN Send(d, outgoing, args.buffer)
  ELSE LET written == ProtocolWrite(d.protocolVersion,
                                    MapNameGet(d.protocolMap, normalizeName(args.name)),
                                    args.version, args.event)
       IN IF written.error THEN [d EXCEPT !.ok = FALSE]
          ELSE Send(d, outgoing, written.data)

\* write(outgoing, name, version, data): args.buffer is the Buffer passed as name,
\* <<>> when a message name was passed
write(d, outgoing, args) ==
  IF ~d.connection.linked THEN [d EXCEPT !.ok = FALSE]
  ELSE IF args.buffer # <<>> THEN Send(d, outgoing, args.buffer)
  ELSE LET written == ProtocolWrite(d.protocolVersion,
                                    MapNameGet(d.protocolMap, normalizeName(args.name)),
                                    args.version, args.event)
       IN IF written.error THEN [d EXCEPT !.ok = FALSE]
          ELSE CHOOSE r \in
                 {[(IF h.exit = "threw" THEN [h.d EXCEPT !.threw = TRUE, !.ok = FALSE]
                    ELSE IF h.out = <<>> THEN [h.d EXCEPT !.ok = FALSE]
                    ELSE Send(h.d, outgoing, h.out))
                     EXCEPT !.handled = [exit |-> h.exit, msg |-> written.data,
                                         incoming |-> ~outgoing, fake |-> TRUE,
                                         calls |-> h.calls, out |-> h.out]] :
                    h \in {handle(d, written.data, ~outgoing, TRUE)}} : TRUE

\* DispatchWrapper.toClient and DispatchWrapper.toServer
toClient(d, args) == write(d, FALSE, args)
toServer(d, args) == write(d, TRUE, args)

WriteArgs(buffer, name, version, event) ==
  [buffer |-> buffer, name |-> name, version |-> version, event |-> event]

NoArgs == WriteArgs(<<>>, <<>>, "", <<>>)

\* the message the inject callback sends
Injected == WriteArgs(<<>>, NameSA, "1", <<9>>)

BumpLast(bytes) ==
  IF bytes = <<>> THEN bytes ELSE [bytes EXCEPT ![Len(bytes)] = (@ + 1) % 256]

\* tryIt(func): what the callback returns or, when it throws, the value it
\* threw; "throw" stands for an instance of Error (callback throw raises
\* one, callback throwFalse raises the value false)
tryIt(cb) ==
  IF cb \in {"true", "false", "throw"} THEN cb
  ELSE IF cb = "throwFalse" THEN "false"
  ELSE IF cb \in {"newbuf", "copy", "kept"} THEN "buffer"
  ELSE "undefined"

\* the bytes of the Buffer a callback of kind kept returns
KeptBuffer == <<5, 0, 18, 52, 1>>

\* tryIt(() => hook.callback(code, data, incoming, fake)): result is what
\* tryIt gives, data the buffer the callback was given as it stands afterwards
RawCallback(cb, data) ==
  [result |-> tryIt(cb),
   buffer |-> IF cb = "newbuf" THEN BumpLast(data)
              ELSE IF cb = "kept" THEN KeptBuffer ELSE data,
   data |-> IF cb = "mutate" THEN BumpLast(data) ELSE data]

\* tryIt(() => hook.callback(event, fake))
ParsedCallback(cb, fields) ==
  [result |-> IF cb = "mutate" THEN "true" ELSE tryIt(cb),
   fields |-> IF cb = "mutate" THEN BumpLast(fields) ELSE fields]

\* filter tests that leave out the one on silenced
FilterMatchesButSilenced(filter, fake, incoming, modified, silenced) ==
  /\ ~(filter.fake # "null" /\ filter.fake # Tri(fake))
  /\ ~(filter.incoming # "null" /\ filter.incoming # Tri(incoming))
  /\ ~(filter.modified # "null" /\ filter.modified # Tri(modified))

\* the four filter tests at the head of the loop body
FilterMatches(filter, fake, incoming, modified, silenced) ==
  /\ ~(filter.fake # "null" /\ filter.fake # Tri(fake))
  /\ ~(filter.incoming # "null" /\ filter.incoming # Tri(incoming))
  /\ ~(filter.modified # "null" /\ filter.modified # Tri(modified))
  /\ ~(filter.silenced # "null" /\ filter.silenced # Tri(silenced))

\* a raw hook whose boolean results never clear the silencing
RawSilencedSticky(result, silenced) == silenced \/ result = "false"

\* silenced = !result, without the test that result is a boolean
RawSilencedAny(result, silenced) == ~(result = "true")

\* if (typeof result === 'boolean') silenced = !result
RawSilenced(result, silenced) ==
  IF result \in {"true", "false"} THEN ~(result = "true") ELSE silenced

\* a return value that ignores the silenced flag
ReturnValueData(silenced, data) == data

\* return (!silenced ? data : false)
ReturnValue(silenced, data) == IF ~silenced THEN data ELSE <<>>

\* one invocation, as the hook saw it
Seen(ref, st, result) ==
  [hook |-> ref, modified |-> st.modified, silenced |-> st.silenced, data |-> st.data,
   result |-> result]

\* result instanceof Error: it is logged and the loop goes on
Thrown(st, seen) == [st EXCEPT !.calls = Append(@, seen)]

\* bufferAttachFlags(buf) on a Buffer that carries the flag properties
\* already: Object.defineProperties raises a TypeError, outside any try
Redefined(st, seen) == [st EXCEPT !.exit = "raised", !.calls = Append(@, seen)]

\* Buffer.isBuffer(result) && result !== data, for the result of a raw
\* callback that returns a Buffer: the kept Buffer may be the current one
RawReplaced(hk, ref, st) == ~(hk.callback = "kept" /\ st.holds = ref)

\* the module a callback of kind unload unloads
UnloadedName == "M1"

\* the dispatcher as a callback finds it while handle runs
Within(d, st) ==
  [d EXCEPT !.connection = st.connection, !.hooks = st.hooks, !.modules = st.modules,
            !.destructorCalls = st.destructorCalls]

\* a callback has called unhook or unload, which left the dispatcher as d2; by
\* is the calling hook, at the place of its call in the chain, hooks what the
\* call took out of the registry
Removing(st, ref, d2) ==
  [st EXCEPT !.hooks = d2.hooks, !.modules = d2.modules,
             !.destructorCalls = d2.destructorCalls,
             !.removed = Append(@, [by |-> ref, at |-> Len(st.calls) + 1,
                                    hooks |-> Live(st.hooks) \ Live(d2.hooks)])]

\* the body of the for-of loop of handle, for one hook; holds names the hook
\* whose kept Buffer the running data is, flagged the hooks whose kept Buffer
\* this call has given the flag properties
HandleStep(d, hk, ref, code, copy, incoming, fake, st) ==
  IF ~FilterMatches(hk.filter, fake, incoming, st.modified, st.silenced) THEN st
  ELSE IF hk.definitionVersion = "raw"
  THEN LET r == RawCallback(hk.callback, st.data)
           st1 == IF hk.callback = "inject"
                  THEN [st EXCEPT !.connection =
                          toServer([d EXCEPT !.connection = st.connection], Injected).connection]
                  ELSE IF hk.callback = "unhookNext" /\ ref < d.nextRef
                  THEN Removing(st, ref, unhook(Within(d, st), ref + 1))
                  ELSE IF hk.callback = "unload"
                  THEN Removing(st, ref, unload(Within(d, st), UnloadedName))
                  ELSE st
       IN IF r.result = "throw"
          THEN Thrown(st, Seen(ref, st, "throw"))
          ELSE IF r.result = "buffer" /\ RawReplaced(hk, ref, st)
          THEN IF hk.callback = "kept" /\ (hk.kept \/ ref \in st.flagged)
               THEN Redefined(st, Seen(ref, st, "buffer"))
               ELSE [st EXCEPT !.modified = st.modified \/ Len(r.buffer) # Len(r.data)
                                              \/ r.buffer # r.data,
                               !.data = r.buffer,
                               !.holds = IF hk.callback = "kept" THEN ref ELSE 0,
                               !.flagged = IF hk.callback = "kept" THEN @ \cup {ref} ELSE @,
                               !.calls = Append(@, Seen(ref, st, "buffer"))]
          ELSE [st1 EXCEPT !.modified = st.modified \/ r.data # copy,
                          !.silenced = RawSilenced(r.result, st.silenced),
                          !.data = r.data,
                          !.calls = Append(@, Seen(ref, st, r.result))]
  ELSE LET event == ProtocolParse(d.protocolVersion, code, hk.definitionVersion, st.data)
       IN IF event.error THEN [st EXCEPT !.exit = "parseFail", !.failed = ref]
          ELSE LET r == ParsedCallback(hk.callback, event.fields)
                   written == ProtocolWrite(d.protocolVersion, code, hk.definitionVersion,
                                            r.fields)
               IN IF r.result = "throw"
                  THEN Thrown(st, Seen(ref, st, "throw"))
                  ELSE IF r.result = "true"
                  THEN IF written.error
                       THEN Redefined([st EXCEPT !.silenced = FALSE], Seen(ref, st, "true"))
                       ELSE [st EXCEPT !.silenced = FALSE,
                                       !.data = written.data,
                                       !.holds = 0,
                                       !.calls = Append(@, Seen(ref, st, "true"))]
                  ELSE IF r.result = "false"
                  THEN [st EXCEPT !.silenced = TRUE,
                                  !.calls = Append(@, Seen(ref, st, "false"))]
                  ELSE [st EXCEPT !.calls = Append(@, Seen(ref, st, r.result))]

\* a chain that goes on to the next hook after a failed parse
AbortedNever(st) == FALSE

\* `return data` of the parse failure: the loop is left
Aborted(st) == st.exit = "parseFail"

\* the for-of loop of handle over the merged iteration
\* yield* group.hooks: the generator takes the array of a group when it comes
\* to the group and yields from that array to its end, whatever unhook or
\* unload assign to group.hooks meanwhile; hk is the next hook of the chain
Entered(hk, st) ==
  IF st.group = <<hk.code, hk.order>> THEN st
  ELSE [st EXCEPT !.group = <<hk.code, hk.order>>,
                  !.yields = GroupHooks(st.hooks, hk.code, hk.order)]

RECURSIVE HandleLoop(_, _, _, _, _, _, _)
HandleLoop(d, list, code, copy, incoming, fake, st) ==
  IF list = <<>> \/ Aborted(st) \/ st.exit = "raised" THEN st
  ELSE CHOOSE r \in
         {HandleLoop(d, Tail(list), code, copy, incoming, fake, next) :
            next \in {IF Head(list) \in at.yields
                      THEN HandleStep(d, d.heap[Head(list)], Head(list), code, copy,
                                      incoming, fake, at)
                      ELSE at :
                        at \in {Entered(d.heap[Head(list)], st)}}} : TRUE

\* a detection that does not look at the protocol version it already has
DetectVersionAlways(d, code, data) ==
  IF code = CheckVersionCode
  THEN LET parsed == ProtocolParse(FirstMapVersion, code, "1", data)
       IN IF parsed.error THEN d
          ELSE IF parsed.fields = <<>> \/ parsed.fields[1] # 0 THEN d
          ELSE setProtocolVersion(d, parsed.fields[2])
  ELSE d

\* the dynamic protocol versioning at the head of handle
DetectVersion(d, code, data) ==
  IF code = CheckVersionCode /\ d.protocolVersion = 0
  THEN LET parsed == ProtocolParse(FirstMapVersion, code, "1", data)
       IN IF parsed.error THEN d
          ELSE IF parsed.fields = <<>> \/ parsed.fields[1] # 0 THEN d
          ELSE setProtocolVersion(d, parsed.fields[2])
  ELSE d

\* handle(data, incoming, fake): d is the dispatcher afterwards; exit names the
\* way out (threw, noHooks, parseFail, end); data, modified and silenced are the
\* running values at that point; out is the value returned, <<>> standing for
\* false; chain is the merged iteration and failed the hook whose parse failed
handle(d, data, incoming, fake) ==
  LET code == ReadUInt16LE(data, 2)
      Start(d1) == [data |-> data, modified |-> FALSE, silenced |-> FALSE, calls |-> <<>>,
                    exit |-> "end", failed |-> 0, connection |-> d1.connection,
                    holds |-> 0, flagged |-> {}, hooks |-> d1.hooks,
                    modules |-> d1.modules, destructorCalls |-> d1.destructorCalls,
                    group |-> <<>>, yields |-> {}, removed |-> <<>>]
      Left(d1, st) ==
        [d1 EXCEPT !.connection = st.connection,
                   !.hooks = st.hooks,
                   !.modules = st.modules,
                   !.destructorCalls = st.destructorCalls,
                   !.heap = [r \in DOMAIN @ |->
                               IF r \in st.flagged THEN [@[r] EXCEPT !.kept = TRUE] ELSE @[r]]]
      Chain(d1) == iterateHooks(RegGet(d1.hooks, Star), RegGet(d1.hooks, code))
      Result(d1, chain, st) ==
        IF st.exit = "parseFail"
        THEN [d |-> Left(d1, st), exit |-> "parseFail",
              calls |-> st.calls, silenced |-> st.silenced,
              modified |-> st.modified, data |-> st.data, out |-> st.data,
              chain |-> chain, failed |-> st.failed, removed |-> st.removed]
        ELSE IF st.exit = "raised"
        THEN [d |-> [Left(d1, st) EXCEPT !.threw = TRUE], exit |-> "threw",
              calls |-> st.calls, silenced |-> st.silenced,
              modified |-> st.modified, data |-> st.data, out |-> <<>>,
              chain |-> chain, failed |-> 0, removed |-> st.removed]
        ELSE [d |-> Left(d1, st), exit |-> "end",
              calls |-> st.calls, silenced |-> st.silenced,
              modified |-> st.modified, data |-> st.data,
              out |-> ReturnValue(st.silenced, st.data),
              chain |-> chain, failed |-> 0, removed |-> st.removed]
      From(d1) ==
        IF d1.threw
        THEN [d |-> d1, exit |-> "threw", calls |-> <<>>, silenced |-> FALSE,
              modified |-> FALSE, data |-> data, out |-> <<>>, chain |-> <<>>, failed |-> 0,
              removed |-> <<>>]
        ELSE IF Star \notin DOMAIN d1.hooks /\ code \notin DOMAIN d1.hooks
        THEN [d |-> d1, exit |-> "noHooks", calls |-> <<>>, silenced |-> FALSE,
              modified |-> FALSE, data |-> data, out |-> data, chain |-> <<>>, failed |-> 0,
              removed |-> <<>>]
        ELSE CHOOSE r \in
               {CHOOSE q \in
                  {Result(d1, chain, st) :
                     st \in {HandleLoop(d1, chain, code, data, incoming, fake, start) :
                               start \in {Start(d1)}}} : TRUE :
                  chain \in {Chain(d1)}} : TRUE
  IN CHOOSE r \in {From(d1) : d1 \in {DetectVersion(d, code, data)}} : TRUE

\* what the caller of handle (the drain loop of a socket's data handler, or
\* write) hands to the peer socket, in plaintext: nothing when handle
\* returned false
Forward(out) == IF out # <<>> THEN <<out>> ELSE <<>>

---------------------------------------------------------------------------
(* Connection: the two 'data' handlers, connect and close *)

Magic == <<1, 0, 0, 0>>

ReadUInt32LE(bytes, offset) ==
  bytes[offset + 1] + 256 * bytes[offset + 2] + 65536 * bytes[offset + 3]
    + 16777216 * bytes[offset + 4]

\* a method call on a socket field that holds null, or a read past the end
\* of a datagram
Raise(d, c) == [d EXCEPT !.connection = c, !.threw = TRUE]

\* what the drain loop did with one framed message; sent counts what was
\* written to the sockets while its handle call ran
Framed(incoming, msg, result, out, sent) ==
  [incoming |-> incoming, msg |-> msg, result |-> result, out |-> out, sent |-> sent]

\* buffer.read() of the drain loop: the dispatcher with the message detached
Detached(d, incoming) ==
  IF incoming THEN [d EXCEPT !.connection.serverBuffer = BufferRest(@)]
  ELSE [d EXCEPT !.connection.clientBuffer = BufferRest(@)]

\* if (this.dispatch != null) data = this.dispatch.handle(data, incoming, false)
DrainHandle(d, incoming, msg) ==
  IF d.connection.dispatch
  THEN CHOOSE r \in {[d |-> [h.d EXCEPT !.connection = Handled(@, msg, h.out)],
                       exit |-> h.exit, out |-> h.out,
                       sent |-> Len(h.d.connection.wire) - Len(d.connection.wire)] :
                        h \in {handle(d, msg, incoming, FALSE)}} : TRUE
  ELSE [d |-> d, exit |-> "none", out |-> msg, sent |-> 0]

\* if (data && peer != null) { cipher; peer.write(data) }, h being what handle gave
DrainWrite(h, incoming, msg) ==
  LET c == h.d.connection
      peerOpen == IF incoming THEN c.socket = "open" ELSE c.client = "open"
      sealed == IF incoming THEN Apply("session1", "encrypt", Plain(h.out))
                ELSE Apply("session2", "decrypt", Plain(h.out))
      result == IF h.out = <<>> THEN "silenced" ELSE IF peerOpen THEN "written" ELSE "dropped"
      c1 == IF result = "written"
            THEN Written(Ciphered(c, IF incoming THEN "session1" ELSE "session2",
                                  IF incoming THEN "encrypt" ELSE "decrypt", "drain",
                                  Plain(h.out)),
                         IF incoming THEN "client" ELSE "server", "drain", sealed)
            ELSE c
  IN IF h.exit = "threw"
     THEN Raise(h.d, [c EXCEPT !.framed = Append(@, Framed(incoming, msg, "threw", <<>>, h.sent))])
     ELSE [h.d EXCEPT !.connection =
              [c1 EXCEPT !.framed = Append(@, Framed(incoming, msg, result, h.out, h.sent))]]

\* a drain that reads one message for each 'data' event: if in place of while
DrainOnce(d, incoming) ==
  LET msg == BufferPeek(IF incoming THEN d.connection.serverBuffer
                        ELSE d.connection.clientBuffer)
  IN IF msg = <<>> THEN d
     ELSE CHOOSE r \in
            {DrainWrite(h, incoming, msg) :
               h \in {DrainHandle(Detached(d, incoming), incoming, msg)}} : TRUE

\* while (data = buffer.read()) { ... }: the drain loop of either data handler;
\* incoming is TRUE for the server's messages
RECURSIVE Drain(_, _)
Drain(d, incoming) ==
  LET msg == BufferPeek(IF incoming THEN d.connection.serverBuffer
                        ELSE d.connection.clientBuffer)
  IN IF msg = <<>> THEN d
     ELSE CHOOSE r \in
            {IF after.threw THEN after ELSE Drain(after, incoming) :
               after \in {DrainWrite(h, incoming, msg) :
                            h \in {DrainHandle(Detached(d, incoming), incoming, msg)}}} : TRUE

\* a length test that lets every datagram through
IsKeyAlways(data) == TRUE

\* data.length === 128
IsKey(data) == Len(data.bytes) = KeyLength

\* a client data handler that advances the state on the first client key
SocketDataAdvance(d, data) ==
  LET c == d.connection
  IN IF c.state \in {0, 1}
     THEN IF ~IsKey(data) THEN d
          ELSE LET c1 == [c EXCEPT !.session1.clientKeys[c.state + 1] = data.bytes,
                                   !.session2.clientKeys[c.state + 1] = data.bytes,
                                   !.state = 1]
               IN IF c.client # "open" THEN Raise(d, c1)
                  ELSE [d EXCEPT !.connection = Written(c1, "server", "handshake", data)]
     ELSE IF c.state = 2
     THEN Drain([d EXCEPT !.connection =
                    [Ciphered(c, "session1", "decrypt", "read", data)
                       EXCEPT !.clientBuffer =
                                BufferWrite(@, Apply("session1", "decrypt", data))]], FALSE)
     ELSE d

\* this.socket.on('data', ...): a datagram from the game client
SocketData(d, data) ==
  LET c == d.connection
  IN IF c.state \in {0, 1}
     THEN IF ~IsKey(data) THEN d
          ELSE LET c1 == [c EXCEPT !.session1.clientKeys[c.state + 1] = data.bytes,
                                   !.session2.clientKeys[c.state + 1] = data.bytes]
               IN IF c.client # "open" THEN Raise(d, c1)
                  ELSE [d EXCEPT !.connection = Written(c1, "server", "handshake", data)]
     ELSE IF c.state = 2
     THEN Drain([d EXCEPT !.connection =
                    [Ciphered(c, "session1", "decrypt", "read", data)
                       EXCEPT !.clientBuffer =
                                BufferWrite(@, Apply("session1", "decrypt", data))]], FALSE)
     ELSE d

\* this.client.on('connect', ...)
ClientConnect(d) == [d EXCEPT !.connection.state = -1, !.connection.connected = TRUE]

\* this.client.on('data', ...): a datagram from the game server
ClientData(d, data) ==
  LET c == d.connection
      Forwarded(c1) == IF c.socket # "open" THEN Raise(d, c1)
                       ELSE [d EXCEPT !.connection = Written(c1, "client", "handshake", data)]
  IN IF c.state = -1
     THEN IF Len(data.bytes) < 4 THEN Raise(d, c)
          ELSE IF ReadUInt32LE(data.bytes, 0) # 1 THEN d
          ELSE Forwarded([c EXCEPT !.state = 0])
     ELSE IF c.state = 0
     THEN IF ~IsKey(data) THEN d
          ELSE Forwarded([c EXCEPT !.session1.serverKeys[1] = data.bytes,
                                   !.session2.serverKeys[1] = data.bytes,
                                   !.state = 1])
     ELSE IF c.state = 1
     THEN IF ~IsKey(data) THEN d
          ELSE Forwarded([c EXCEPT !.session1.serverKeys[2] = data.bytes,
                                   !.session2.serverKeys[2] = data.bytes,
                                   !.session1.inits = @ + 1,
                                   !.session2.inits = @ + 1,
                                   !.state = 2])
     ELSE Drain([d EXCEPT !.connection =
                    [Ciphered(c, "session2", "encrypt", "read", data)
                       EXCEPT !.serverBuffer =
                                BufferWrite(@, Apply("session2", "encrypt", data))]], TRUE)

\* Connection.close(): end both sockets, reset the dispatcher
ConnectionClose(d) ==
  LET c == d.connection
      c1 == [c EXCEPT !.client = IF @ = "open" THEN "ended" ELSE @,
                      !.socket = IF @ = "open" THEN "ended" ELSE @]
      d1 == [d EXCEPT !.connection = c1]
  IN IF ~c.dispatch THEN d1
     ELSE CHOOSE r \in {IF d2.threw THEN d2 ELSE [d2 EXCEPT !.connection.dispatch = FALSE] :
                          d2 \in {reset(d1)}} : TRUE

\* this.socket.on('close', ...)
SocketClose(d) == ConnectionClose([d EXCEPT !.connection.socket = "closed"])

\* this.client.on('close', ...)
ClientClose(d) == ConnectionClose([d EXCEPT !.connection.client = "closed"])

---------------------------------------------------------------------------
(* State after `new Dispatch(connection, protocolVersion)` *)

ModuleNames == {"M1", "M2"}

---------------------------------------------------------------------------
(* createServer.  dispatches lists the Dispatch objects made so far and   *)
(* owner gives, for each accepted socket, the one its Connection holds;   *)
(* event records the latest event: the socket it belongs to, what it was  *)
(* and the order of each hook that handle invoked.                        *)

NoEvent == [conn |-> 0, op |-> "none", fired |-> <<>>]

NoServer == [dispatches |-> <<>>, owner |-> <<>>, event |-> NoEvent]

\* new Dispatch; new Connection(socket, dispatch); proxy.connect(connectOpts);
\* dispatch.connection = proxy
NewDispatch ==
  [protocolVersion |-> 0, protocolMap |-> ProtocolMapsGet(0), hooks |-> <<>>,
   queuedHooks |-> <<>>, modules |-> <<>>, connection |-> NewConnection,
   heap |-> [r \in 1..MaxRefs |-> EmptyObj], nextRef |-> 0,
   destructorCalls |-> [m \in ModuleNames |-> 0], regOrder |-> <<>>,
   threw |-> FALSE, ref |-> 0, ok |-> FALSE, handled |-> NoHandled, constructed |-> FALSE]

\* a connection listener that hands every socket the dispatcher made first
createServerShared(s) ==
  IF s.dispatches = <<>>
  THEN [dispatches |-> <<NewDispatch>>, owner |-> <<1>>,
        event |-> [conn |-> 1, op |-> "accept", fired |-> <<>>]]
  ELSE [s EXCEPT !.owner = Append(@, 1),
                 !.event = [conn |-> Len(s.owner) + 1, op |-> "accept", fired |-> <<>>]]

\* the connection listener of createServer, for one accepted socket
createServer(s) ==
  [dispatches |-> Append(s.dispatches, NewDispatch),
   owner |-> Append(s.owner, Len(s.dispatches) + 1),
   event |-> [conn |-> Len(s.owner) + 1, op |-> "accept", fired |-> <<>>]]

\* the dispatcher of the k-th accepted socket
DispatchOf(s, k) == s.dispatches[s.owner[k]]

\* an event of the k-th accepted socket has run and left its dispatcher as d
Event(s, k, op, d, calls) ==
  [s EXCEPT !.dispatches[s.owner[k]] =
               [d EXCEPT !.threw = FALSE, !.ref = 0, !.ok = FALSE, !.handled = NoHandled,
                         !.constructed = FALSE],
            !.event = [conn |-> k, op |-> op,
                       fired |-> [i \in 1..Len(calls) |-> d.heap[calls[i].hook].order]]]

NoCall == [op |-> "new", ref |-> 0, mod |-> "", ok |-> TRUE, threw |-> FALSE]

NoCtor == [hooks |-> <<>>, throws |-> "no", destructor |-> "none"]

NoRun ==
  [msg |-> <<>>, incoming |-> FALSE, fake |-> FALSE, exit |-> "none", calls |-> <<>>,
   silenced |-> FALSE, modified |-> FALSE, data |-> <<>>, out |-> <<>>, sent |-> <<>>,
   entry |-> FALSE, chain |-> <<>>, failed |-> 0, outgoing |-> FALSE, args |-> NoArgs,
   ctor |-> NoCtor, removed |-> <<>>]

\* the constructor: empty maps, then setProtocolVersion(protocolVersion);
\* c is the connection the dispatcher is given
ConstructedWith(version, c) ==
  /\ protocolVersion = version
  /\ protocolMap = ProtocolMapsGet(version)
  /\ hooks = <<>>
  /\ queuedHooks = <<>>
  /\ modules = <<>>
  /\ connection = c
  /\ heap = [r \in 1..MaxRefs |-> EmptyObj]
  /\ nextRef = 0
  /\ destructorCalls = [m \in ModuleNames |-> 0]
  /\ loads = 0
  /\ revoked = {}
  /\ unhooked = {}
  /\ cleared = {}
  /\ regOrder = <<>>
  /\ last = NoCall
  /\ run = NoRun
  /\ server = NoServer

Constructed(version) == ConstructedWith(version, NewConnection)

Commit(d) ==
  /\ protocolVersion' = d.protocolVersion
  /\ protocolMap' = d.protocolMap
  /\ hooks' = d.hooks
  /\ queuedHooks' = d.queuedHooks
  /\ modules' = d.modules
  /\ connection' = d.connection
  /\ server' = server
  /\ heap' = d.heap
  /\ nextRef' = d.nextRef
  /\ destructorCalls' = d.destructorCalls
  /\ regOrder' = d.regOrder

Called(op, d, mod) == [op |-> op, ref |-> d.ref, mod |-> mod, ok |-> d.ok, threw |-> d.threw]

IsQueued(ref) == \E i \in 1..Len(queuedHooks) : queuedHooks[i].hook = ref

OwnedBy(names) == {r \in 1..nextRef : heap[r].moduleName \in names}

---------------------------------------------------------------------------
(* One action per API call *)

\* dispatch.hook(name, version, opts, cb), called on the dispatcher itself
DoHook(args, limit) ==
  /\ nextRef < limit
  /\ \E d \in {hook(Self, args)} :
        Commit(d) /\ last' = Called("hook", [d EXCEPT !.ok = ~d.threw], "")
  /\ run' = NoRun
  /\ UNCHANGED <<cleared, loads, revoked, unhooked>>

\* wrapper.hook(name, version, opts, cb), called by a loaded module
DoWrapperHook(name, args, limit) ==
  /\ nextRef < limit
  /\ name \in DOMAIN modules
  /\ \E d \in {WrapperHook(Self, name, args)} :
        Commit(d) /\ last' = Called("hook", [d EXCEPT !.ok = ~d.threw], name)
  /\ run' = NoRun
  /\ UNCHANGED <<cleared, loads, revoked, unhooked>>

\* dispatch.unhook(hook) with a handle that hook() returned earlier
DoUnhook(ref) ==
  /\ ref \in 1..nextRef
  /\ \E d \in {unhook(Self, ref)} :
        Commit(d) /\ last' = Called("unhook", [d EXCEPT !.ref = ref, !.ok = TRUE], "")
  /\ unhooked' = IF protocolVersion = 0 /\ IsQueued(ref) THEN unhooked \cup {ref} ELSE unhooked
  /\ run' = NoRun
  /\ UNCHANGED <<cleared, loads, revoked>>

\* dispatch.load(name, from)
DoLoad(name, ctor) ==
  /\ loads < MaxLoads
  /\ \E d \in {load(Self, name, ctor)} :
        /\ Commit(d)
        /\ last' = Called("load", d, name)
        /\ loads' = IF d.constructed THEN loads + 1 ELSE loads
  /\ run' = [NoRun EXCEPT !.ctor = ctor]
  /\ UNCHANGED <<cleared, revoked, unhooked>>

\* dispatch.unload(name)
DoUnload(name) ==
  /\ \E d \in {unload(Self, name)} :
        Commit(d) /\ last' = Called("unload", d, name)
  /\ revoked' = IF name \in DOMAIN modules THEN revoked \cup OwnedBy({name}) ELSE revoked
  /\ run' = NoRun
  /\ UNCHANGED <<cleared, loads, unhooked>>

\* dispatch.reset()
DoReset ==
  /\ \E d \in {reset(Self)} :
        Commit(d) /\ last' = Called("reset", [d EXCEPT !.ok = TRUE], "")
  /\ revoked' = revoked \cup OwnedBy(DOMAIN modules)
  /\ cleared' = 1..nextRef
  /\ run' = NoRun
  /\ UNCHANGED <<loads, unhooked>>

\* dispatch.setProtocolVersion(version)
DoSetProtocolVersion(version) ==
  /\ \E d \in {setProtocolVersion(Self, version)} :
        Commit(d) /\ last' = Called("setProtocolVersion", [d EXCEPT !.ok = ~d.threw], "")
  /\ run' = NoRun
  /\ UNCHANGED <<cleared, loads, revoked, unhooked>>

\* dispatch.handle(data, incoming, fake)
DoHandle(data, incoming, fake) ==
  /\ \E h \in {handle(Self, data, incoming, fake)} :
        /\ Commit(h.d)
        /\ last' = Called("handle", [h.d EXCEPT !.ok = (h.exit # "threw")], "")
        /\ run' = [msg |-> data, incoming |-> incoming, fake |-> fake, exit |-> h.exit,
                   calls |-> h.calls, silenced |-> h.silenced, modified |-> h.modified,
                   data |-> h.data, out |-> h.out, chain |-> h.chain, failed |-> h.failed,
                   sent |-> IF h.exit = "threw" THEN <<>> ELSE Forward(h.out),
                   entry |-> (Star \in DOMAIN h.d.hooks
                                \/ ReadUInt16LE(data, 2) \in DOMAIN h.d.hooks),
                   outgoing |-> FALSE, args |-> NoArgs, ctor |-> NoCtor,
                   removed |-> h.removed]
        /\ revoked' = revoked \cup OwnedBy(DOMAIN modules \ DOMAIN h.d.modules)
  /\ UNCHANGED <<cleared, loads, unhooked>>

\* dispatch.write(outgoing, name, version, data)
DoWrite(outgoing, args) ==
  /\ connection.events < MaxEvents
  /\ \E d \in {write([Self EXCEPT !.connection.events = @ + 1], outgoing, args)} :
        /\ Commit(d)
        /\ last' = Called("write", d, "")
        /\ run' = [NoRun EXCEPT !.exit = d.handled.exit, !.msg = d.handled.msg,
                                !.incoming = d.handled.incoming, !.fake = d.handled.fake,
                                !.calls = d.handled.calls, !.out = d.handled.out,
                                !.outgoing = outgoing, !.args = args]
  /\ UNCHANGED <<cleared, loads, revoked, unhooked>>

\* a datagram arrives on the accepted socket, which still reads after end()
DoSocketData(data) ==
  /\ connection.events < MaxEvents
  /\ connection.socket # "closed"
  /\ \E d \in {SocketData([Self EXCEPT !.connection.events = @ + 1,
                                         !.connection.input = data,
                                         !.connection.fromClient =
                                            IF connection.state = 2
                                            THEN @ \o Apply("session1", "decrypt", data).bytes
                                            ELSE @], data)} :
        Commit(d) /\ last' = Called("socketData", [d EXCEPT !.ok = ~d.threw], "")
  /\ run' = NoRun
  /\ UNCHANGED <<cleared, loads, revoked, unhooked>>

\* the outbound socket connects
DoClientConnect ==
  /\ ~connection.connected
  /\ connection.client = "open"
  /\ \E d \in {ClientConnect(Self)} :
        Commit(d) /\ last' = Called("connect", [d EXCEPT !.ok = TRUE], "")
  /\ run' = NoRun
  /\ UNCHANGED <<cleared, loads, revoked, unhooked>>

\* a datagram arrives on the outbound socket, which still reads after end()
DoClientData(data) ==
  /\ connection.events < MaxEvents
  /\ connection.connected
  /\ connection.client # "closed"
  /\ \E d \in {ClientData([Self EXCEPT !.connection.events = @ + 1,
                                         !.connection.input = data,
                                         !.connection.fromServer =
                                            IF connection.state = 2
                                            THEN @ \o Apply("session2", "encrypt", data).bytes
                                            ELSE @], data)} :
        Commit(d) /\ last' = Called("clientData", [d EXCEPT !.ok = ~d.threw], "")
  /\ run' = NoRun
  /\ UNCHANGED <<cleared, loads, revoked, unhooked>>

\* normalizeName(name), as createHook and write call it
DoNormalizeName(name) ==
  /\ run' = [NoRun EXCEPT !.args.name = name, !.out = normalizeName(name)]
  /\ last' = [NoCall EXCEPT !.op = "normalizeName"]
  /\ UNCHANGED <<protocolVersion, protocolMap, hooks, queuedHooks, modules, connection,
                 heap, nextRef, destructorCalls, loads, revoked, unhooked, cleared,
                 regOrder, server>>

\* the server accepts a socket
DoAccept ==
  /\ server' = createServer(server)
  /\ UNCHANGED <<protocolVersion, protocolMap, hooks, queuedHooks, modules, connection,
                 heap, nextRef, destructorCalls, loads, revoked, unhooked, cleared,
                 regOrder, last, run>>

\* an event of the k-th accepted socket: an API call of its user on the
\* dispatcher cb was given, a message, or one of its sockets' events
DoEvent(k, op, d, calls) ==
  /\ server' = Event(server, k, op, d, calls)
  /\ UNCHANGED <<protocolVersion, protocolMap, hooks, queuedHooks, modules, connection,
                 heap, nextRef, destructorCalls, loads, revoked, unhooked, cleared,
                 regOrder, last, run>>

\* the accepted socket emits 'close'
DoSocketClose ==
  /\ connection.socket # "closed"
  /\ \E d \in {SocketClose(Self)} :
        Commit(d) /\ last' = Called("socketClose", [d EXCEPT !.ok = TRUE], "")
  /\ revoked' = revoked \cup OwnedBy(DOMAIN modules)
  /\ cleared' = IF connection.dispatch THEN 1..nextRef ELSE cleared
  /\ run' = NoRun
  /\ UNCHANGED <<loads, unhooked>>

\* the outbound socket emits 'close'
DoClientClose ==
  /\ connection.client # "closed"
  /\ \E d \in {ClientClose(Self)} :
        Commit(d) /\ last' = Called("clientClose", [d EXCEPT !.ok = TRUE], "")
  /\ revoked' = revoked \cup OwnedBy(DOMAIN modules)
  /\ cleared' = IF connection.dispatch THEN 1..nextRef ELSE cleared
  /\ run' = NoRun
  /\ UNCHANGED <<loads, unhooked>>

---------------------------------------------------------------------------
(* Inputs *)

StarName == <<"*">>
CamelSA == <<"s", "A">>
NameSX == <<"S", "_", "X">>

HookArgs(name, version, order, filter, cb) ==
  [name |-> name, version |-> version, order |-> order, filter |-> filter, type |-> "",
   cb |-> cb]

NoFilter == [fake |-> "false"]
AnySilenced == [silenced |-> "null"]

MsgA(b) == <<5, 0, 18, 52, b>>
MsgCheckVersion(index, value) == <<6, 0, 188, 77, index, value>>
MsgOther == <<4, 0, 1, 0>>

Versions == {0} \cup MappedVersions \cup UnmappedVersions

\* the constructor the loader resolves a module name to
Constructor(name) ==
  IF name = "M1" THEN [hooks |-> <<>>, throws |-> "no", destructor |-> "ok"]
  ELSE [hooks |-> <<>>, throws |-> "no", destructor |-> "none"]

---------------------------------------------------------------------------
(* Spec: deferred registration.  The dispatcher is built with no protocol *)
(* version; hooks are registered, revoked and materialized.               *)

QueueArgs ==
  {HookArgs(StarName, "raw", 5, NoFilter, "noop"),
   HookArgs(CamelSA, "raw", 5, NoFilter, "noop"),
   HookArgs(StarName, "1", 5, NoFilter, "noop")}

QueueMsgs == {MsgA(7), MsgCheckVersion(0, 1), MsgCheckVersion(0, 2), MsgCheckVersion(1, 1)}

Init == Constructed(0)

Hook == \E a \in QueueArgs : DoHook(a, MaxHooks)
Unhook == \E r \in 1..MaxRefs : DoUnhook(r)
SetProtocolVersion == \E v \in Versions : DoSetProtocolVersion(v)
Handle == \E m \in QueueMsgs : DoHandle(m, FALSE, FALSE)

Next ==
  \/ Hook
  \/ Unhook
  \/ SetProtocolVersion
  \/ Handle

Spec == Init /\ [][Next]_vars

---------------------------------------------------------------------------
(* SpecModules: modules loaded and unloaded, registering through their    *)
(* wrappers.                                                              *)

ModuleArgs ==
  {HookArgs(StarName, "raw", 5, NoFilter, "noop"),
   HookArgs(CamelSA, "raw", 5, NoFilter, "noop")}

ModuleMsgs == {MsgA(7), MsgCheckVersion(0, 1)}

InitModules == Constructed(0)

HookM == \E a \in ModuleArgs : DoHook(a, MaxHooks)
ModuleHookM == \E m \in ModuleNames, a \in ModuleArgs : DoWrapperHook(m, a, MaxHooks)
LoadM == \E m \in ModuleNames : DoLoad(m, Constructor(m))
UnloadM == \E m \in ModuleNames : DoUnload(m)
ResetM == DoReset
HandleM == \E m \in ModuleMsgs : DoHandle(m, FALSE, FALSE)

NextModules ==
  \/ HookM
  \/ ModuleHookM
  \/ LoadM
  \/ UnloadM
  \/ ResetM
  \/ HandleM

SpecModules == InitModules /\ [][NextModules]_vars

---------------------------------------------------------------------------
(* SpecMerge: a dispatcher built with a known protocol version; hooks of  *)
(* several orders on '*' and on one code.                                 *)

MergeArgs ==
  {HookArgs(n, "raw", o, NoFilter, "noop") : n \in {StarName, NameSA}, o \in {0, 5, 10}}

InitMerge == Constructed(1)

HookG == \E a \in MergeArgs : DoHook(a, MaxRefs)
UnhookG == \E r \in 1..MaxRefs : DoUnhook(r)
HandleG == DoHandle(MsgA(7), FALSE, FALSE)

NextMerge ==
  \/ HookG
  \/ UnhookG
  \/ HandleG

SpecMerge == InitMerge /\ [][NextMerge]_vars

---------------------------------------------------------------------------
(* SpecHandle: a dispatcher built with a known protocol version; hooks    *)
(* whose callbacks return, raise and rewrite, then messages through them. *)

HandleArgs ==
  {HookArgs(NameSA, "raw", 0, f, cb) :
      f \in {NoFilter, AnySilenced}, cb \in {"noop", "true", "false", "throw", "newbuf", "mutate"}}
    \cup {HookArgs(NameSA, "1", 0, f, cb) :
      f \in {NoFilter, AnySilenced}, cb \in {"noop", "true", "false", "throw", "mutate"}}
    \cup {HookArgs(NameSA, "2", 0, AnySilenced, "noop")}
    \cup {HookArgs(StarName, "raw", 5, AnySilenced, cb) : cb \in {"noop", "true", "false"}}
    \cup {HookArgs(StarName, "*", 5, AnySilenced, "true")}
    \cup {HookArgs(NameSA, "raw", 0, AnySilenced, "throwFalse")}

HandleMsgs == {MsgA(7), MsgOther}

InitHandle == Constructed(1)

HookH == \E a \in HandleArgs : DoHook(a, MaxHooks)
HandleH == \E m \in HandleMsgs, fake \in BOOLEAN : DoHandle(m, FALSE, fake)

NextHandle ==
  \/ HookH
  \/ HandleH

SpecHandle == InitHandle /\ [][NextHandle]_vars

---------------------------------------------------------------------------
(* SpecHandshake: the connection from accept to steady state, with        *)
(* either socket closing at any point.  The dispatcher has no hooks.      *)

Key(k) == [i \in 1..KeyLength |-> k]

Junk == <<2, 0, 0, 0>>

Short == <<1, 0>>

ServerDatagrams == {Plain(Magic), Plain(Key(5)), Plain(Key(6)), Plain(Junk), Plain(Short)}
ClientDatagrams == {Plain(Key(3)), Plain(Key(4)), Plain(Junk)}

\* ciphertext as the two peers send it in steady state
FromClient(bytes) == Apply("session1", "decrypt", Plain(bytes))
FromServer(bytes) == Apply("session2", "encrypt", Plain(bytes))

InitHandshake == Constructed(0)

ConnectH == DoClientConnect
ServerDataH ==
  \/ connection.state < 2 /\ \E data \in ServerDatagrams : DoClientData(data)
  \/ connection.state = 2 /\ DoClientData(FromServer(MsgA(7)))
ClientDataH ==
  \/ connection.state < 2 /\ \E data \in ClientDatagrams : DoSocketData(data)
  \/ connection.state = 2 /\ DoSocketData(FromClient(MsgA(7)))
SocketCloseH == DoSocketClose
ClientCloseH == DoClientClose

NextHandshake ==
  \/ ConnectH
  \/ ServerDataH
  \/ ClientDataH
  \/ SocketCloseH
  \/ ClientCloseH

SpecHandshake == InitHandshake /\ [][NextHandshake]_vars

---------------------------------------------------------------------------
(* SpecSplice: steady state.  The handshake is done, both sockets are     *)
(* open, the dispatcher was built without a protocol version; hooks are   *)
(* registered and the two peers send messages, whole, split and joined.   *)

\* the connection after connect, the server's magic and the four keys
Handshaken ==
  ClientData(
    SocketData(
      ClientData(
        SocketData(
          ClientData(ClientConnect([connection |-> NewConnection, threw |-> FALSE]),
                     Plain(Magic)),
          Plain(Key(3))),
        Plain(Key(5))),
      Plain(Key(4))),
    Plain(Key(6))).connection

SpliceArgs ==
  {HookArgs(NameSA, "raw", 0, NoFilter, cb) : cb \in {"false", "newbuf", "inject"}}
    \cup {HookArgs(StarName, "1", 0, NoFilter, "noop"),
          HookArgs(NameSA, "raw", 0, [fake |-> "true"], "false")}

ClientChunks ==
  {FromClient(MsgCheckVersion(0, 1)), FromClient(MsgA(7)),
   FromClient(MsgA(7) \o MsgA(8)), FromClient(MsgCheckVersion(0, 1) \o MsgA(7)),
   FromClient(SubSeq(MsgA(7), 1, 2)), FromClient(SubSeq(MsgA(7), 3, 5))}

ServerChunks == {FromServer(MsgA(9))}

InitSplice ==
  ConstructedWith(0, [Handshaken EXCEPT !.events = Len(Handshaken.wire),
                                        !.input = Plain(Key(6))])

HookS == \E a \in SpliceArgs : DoHook(a, MaxHooks - 1)
ClientChunkS == \E data \in ClientChunks : DoSocketData(data)
ServerChunkS == \E data \in ServerChunks : DoClientData(data)

NextSplice ==
  \/ HookS
  \/ ClientChunkS
  \/ ServerChunkS

SpecSplice == InitSplice /\ [][NextSplice]_vars

---------------------------------------------------------------------------
(* SpecLoad: modules whose constructors and destructors return or throw,  *)
(* on a dispatcher with or without a protocol version.                    *)

Constructors ==
  {[hooks |-> <<>>, throws |-> t, destructor |-> "ok"] : t \in {"no", "error", "null"}}
    \cup {[hooks |-> <<>>, throws |-> "no", destructor |-> k] :
             k \in {"none", "throws", "throwsNull"}}

InitLoad == \E v \in {0} \cup MappedVersions : Constructed(v)

LoadL == \E m \in ModuleNames, c \in Constructors : DoLoad(m, c)
ModuleHookL == \E m \in ModuleNames, a \in ModuleArgs : DoWrapperHook(m, a, MaxHooks)
UnloadL == \E m \in ModuleNames : destructorCalls[m] < MaxLoads /\ DoUnload(m)
ResetL == (\A m \in DOMAIN modules : destructorCalls[m] < MaxLoads) /\ DoReset

NextLoad ==
  \/ LoadL
  \/ ModuleHookL
  \/ UnloadL
  \/ ResetL

SpecLoad == InitLoad /\ [][NextLoad]_vars

---------------------------------------------------------------------------
(* SpecConstruct: modules whose constructors register hooks through their *)
(* wrappers and then return or throw, on a dispatcher with or without a   *)
(* protocol version.                                                      *)

HookingConstructors ==
  {[hooks |-> h, throws |-> t, destructor |-> "ok"] :
     h \in {<<>>} \cup {<<a>> : a \in ModuleArgs}, t \in {"no", "error"}}

InitConstruct == \E v \in {0} \cup MappedVersions : Constructed(v)

LoadK ==
  \E m \in ModuleNames, c \in HookingConstructors :
     nextRef + Len(c.hooks) <= MaxHooks /\ DoLoad(m, c)
UnloadK == \E m \in ModuleNames : DoUnload(m)
SetProtocolVersionK == \E v \in MappedVersions : protocolVersion = 0 /\ DoSetProtocolVersion(v)
HandleK == \E m \in ModuleMsgs : DoHandle(m, FALSE, FALSE)

NextConstruct ==
  \/ LoadK
  \/ UnloadK
  \/ SetProtocolVersionK
  \/ HandleK

SpecConstruct == InitConstruct /\ [][NextConstruct]_vars

---------------------------------------------------------------------------
(* SpecReentrant: hooks whose callbacks call unhook and unload while the  *)
(* chain of a message is running, on hooks of their own group and of      *)
(* later groups.                                                          *)

ReentrantArgs ==
  {HookArgs(n, "raw", o, NoFilter, cb) :
     n \in {StarName, CamelSA}, o \in {0, 5}, cb \in {"noop", "unhookNext"}}
    \cup {HookArgs(CamelSA, "raw", 0, NoFilter, "unload")}

ReentrantModuleArgs == {HookArgs(CamelSA, "raw", o, NoFilter, "noop") : o \in {0, 5}}

InitReentrant == Constructed(1)

HookQ == \E a \in ReentrantArgs : DoHook(a, MaxHooks)
LoadQ == DoLoad(UnloadedName, Constructor(UnloadedName))
ModuleHookQ == \E a \in ReentrantModuleArgs : DoWrapperHook(UnloadedName, a, MaxHooks)
HandleQ == DoHandle(MsgA(7), FALSE, FALSE)

NextReentrant ==
  \/ HookQ
  \/ LoadQ
  \/ ModuleHookQ
  \/ HandleQ

SpecReentrant == InitReentrant /\ [][NextReentrant]_vars

---------------------------------------------------------------------------
(* SpecClose: a connection with modules loaded, whose two sockets close   *)
(* in either order.                                                       *)

InitClose == Constructed(0)

LoadC == \E m \in ModuleNames, c \in Constructors : DoLoad(m, c)
ModuleHookC == \E m \in ModuleNames, a \in ModuleArgs : DoWrapperHook(m, a, MaxHooks - 1)
ConnectC == DoClientConnect
VersionC == \E v \in MappedVersions : protocolVersion = 0 /\ DoSetProtocolVersion(v)
SocketCloseC == DoSocketClose
ClientCloseC == DoClientClose

NextClose ==
  \/ LoadC
  \/ ModuleHookC
  \/ ConnectC
  \/ VersionC
  \/ SocketCloseC
  \/ ClientCloseC

SpecClose == InitClose /\ [][NextClose]_vars

---------------------------------------------------------------------------
(* SpecFraming: in steady state each peer sends a sequence of well-formed  *)
(* messages, cut into datagrams at arbitrary places.                       *)

MaxMessages == 3

ClientMessages == {MsgA(7), MsgOther, MsgCheckVersion(0, 1)}
ServerMessages == {MsgA(9)}

MessageSeqs(pool) == UNION {[1..n -> pool] : n \in 1..MaxMessages}

IsPrefix(p, s) == Len(p) <= Len(s) /\ SubSeq(s, 1, Len(p)) = p

\* the datagrams that may follow what a peer has sent so far
ChunksAfter(received, pool) ==
  UNION {LET stream == Concat(ms)
         IN IF IsPrefix(received, stream)
            THEN {SubSeq(stream, Len(received) + 1, Len(received) + n) :
                    n \in 1..(Len(stream) - Len(received))}
            ELSE {} : ms \in MessageSeqs(pool)}

InitFraming == InitSplice

ClientChunkF ==
  \E bytes \in ChunksAfter(connection.fromClient, ClientMessages) :
    DoSocketData(FromClient(bytes))
ServerChunkF ==
  \E bytes \in ChunksAfter(connection.fromServer, ServerMessages) :
    DoClientData(FromServer(bytes))

NextFraming ==
  \/ ClientChunkF
  \/ ServerChunkF

SpecFraming == InitFraming /\ [][NextFraming]_vars

---------------------------------------------------------------------------
(* SpecNormalize: normalizeName applied to names over a small alphabet,   *)
(* to the exceptional name, and to its own results.                       *)

MaxName == 3

NameChars == {"a", "s", "A", "S", "_", "2"}
Names == {SpecialName} \cup UNION {[1..n -> NameChars] : n \in 0..MaxName}

InitNormalize == Constructed(0)

NormalizeN == \E name \in Names : DoNormalizeName(name)
RenormalizeN == last.op = "normalizeName" /\ DoNormalizeName(run.out)

NextNormalize ==
  \/ NormalizeN
  \/ RenormalizeN

SpecNormalize == InitNormalize /\ [][NextNormalize]_vars

---------------------------------------------------------------------------
(* SpecDetect: version detection.  The API sets the version only to 0 or   *)
(* to an unmapped one, so that a mapped version comes from handle alone.   *)

DetectMsgs ==
  {MsgA(7), MsgOther,
   MsgCheckVersion(0, 0), MsgCheckVersion(0, 1), MsgCheckVersion(0, 2), MsgCheckVersion(1, 1),
   <<4, 0, 188, 77>>, <<5, 0, 188, 77, 0>>}

InitDetect == Constructed(0)

HookD == \E a \in QueueArgs : DoHook(a, MaxHooks - 1)
SetProtocolVersionD == \E v \in {0} \cup UnmappedVersions : DoSetProtocolVersion(v)
HandleD == \E m \in DetectMsgs : DoHandle(m, FALSE, FALSE)

NextDetect ==
  \/ HookD
  \/ SetProtocolVersionD
  \/ HandleD

SpecDetect == InitDetect /\ [][NextDetect]_vars

---------------------------------------------------------------------------
(* SpecServer: two accepted connections whose events interleave.  The    *)
(* user of the k-th connection registers its hooks with order k, which   *)
(* tells the hooks of the two users apart.                               *)

MaxConnections == 2

Accepted == DOMAIN server.owner

ServerArgs(k) ==
  {HookArgs(StarName, "raw", k, NoFilter, "noop"),
   HookArgs(CamelSA, "raw", k, NoFilter, "noop")}

ServerMsgs == {MsgA(7), MsgCheckVersion(0, 1)}

InitServer == Constructed(0)

AcceptV == Len(server.owner) < MaxConnections /\ DoAccept
HookV ==
  \E k \in Accepted : \E a \in ServerArgs(k) :
    /\ DispatchOf(server, k).nextRef < MaxHooks - 1
    /\ DoEvent(k, "hook", hook(DispatchOf(server, k), a), <<>>)
LoadV ==
  \E k \in Accepted :
    /\ "M1" \notin DOMAIN DispatchOf(server, k).modules
    /\ DoEvent(k, "load", load(DispatchOf(server, k), "M1", Constructor("M1")), <<>>)
SetProtocolVersionV ==
  \E k \in Accepted, v \in MappedVersions :
    /\ DispatchOf(server, k).protocolVersion = 0
    /\ DoEvent(k, "setProtocolVersion", setProtocolVersion(DispatchOf(server, k), v), <<>>)
HandleV ==
  \E k \in Accepted, m \in ServerMsgs :
    \E h \in {handle(DispatchOf(server, k), m, FALSE, FALSE)} :
      DoEvent(k, "handle", h.d, h.calls)
ConnectV ==
  \E k \in Accepted :
    /\ ~DispatchOf(server, k).connection.connected
    /\ DoEvent(k, "clientConnect", ClientConnect(DispatchOf(server, k)), <<>>)
ServerDataV ==
  \E k \in Accepted :
    /\ DispatchOf(server, k).connection.connected
    /\ DispatchOf(server, k).connection.state = -1
    /\ DoEvent(k, "clientData", ClientData(DispatchOf(server, k), Plain(Magic)), <<>>)

NextServer ==
  \/ AcceptV
  \/ HookV
  \/ LoadV
  \/ SetProtocolVersionV
  \/ HandleV
  \/ ConnectV
  \/ ServerDataV

SpecServer == InitServer /\ [][NextServer]_vars

---------------------------------------------------------------------------
(* SpecStable: every handle is handed out while the protocol version is    *)
(* unknown; the queue is drained by the API or by version detection.       *)

InitStable == Constructed(0)

HookT == protocolVersion = 0 /\ \E a \in QueueArgs : DoHook(a, MaxHooks)
UnhookT == \E r \in 1..MaxRefs : DoUnhook(r)
SetProtocolVersionT == \E v \in Versions : DoSetProtocolVersion(v)
HandleT == \E m \in QueueMsgs : DoHandle(m, FALSE, FALSE)

NextStable ==
  \/ HookT
  \/ UnhookT
  \/ SetProtocolVersionT
  \/ HandleT

SpecStable == InitStable /\ [][NextStable]_vars

---------------------------------------------------------------------------
(* SpecFilter: hooks whose filters set each of the four fields, on        *)
(* messages real and fake, from either side, which earlier hooks silence, *)
(* release and rewrite.                                                   *)

Filters ==
  {NoFilter, [fake |-> "null"], [fake |-> "true"], [incoming |-> "true"],
   [incoming |-> "false", silenced |-> "null"], [modified |-> "true", silenced |-> "null"],
   [modified |-> "false"], [silenced |-> "true"]}

FilterHookArgs ==
  {HookArgs(NameSA, "raw", 0, f, cb) : f \in Filters, cb \in {"false", "true", "newbuf"}}
    \cup {HookArgs(NameSA, "2", 0, AnySilenced, "noop")}

InitFilter == Constructed(1)

HookF == \E a \in FilterHookArgs : DoHook(a, MaxHooks)
HandleF == \E incoming, fake \in BOOLEAN : DoHandle(MsgA(7), incoming, fake)

NextFilter ==
  \/ HookF
  \/ HandleF

SpecFilter == InitFilter /\ [][NextFilter]_vars

---------------------------------------------------------------------------
(* SpecRaw: raw hooks that return buffers, new ones, equal ones and one   *)
(* kept from call to call, mixed with hooks that silence and rewrite.     *)

RawHookArgs ==
  {HookArgs(NameSA, "raw", 0, AnySilenced, cb) :
      cb \in {"newbuf", "copy", "kept", "mutate", "false", "noop"}}
    \cup {HookArgs(NameSA, "1", 0, AnySilenced, cb) : cb \in {"noop", "mutate"}}

InitRaw == Constructed(1)

HookR == \E a \in RawHookArgs : DoHook(a, MaxHooks)
HandleR == \E m \in {MsgA(7), KeptBuffer} : DoHandle(m, FALSE, FALSE)

NextRaw ==
  \/ HookR
  \/ HandleR

SpecRaw == InitRaw /\ [][NextRaw]_vars

---------------------------------------------------------------------------
(* SpecRegistry: hooks of several orders on '*' and on one code, made by  *)
(* the dispatcher's user and by a module, before and after the protocol   *)
(* version is known, and taken out again by unhook and unload.            *)

RegistryOrders == {-1, 0, 5}

RegistryArgs ==
  {HookArgs(CamelSA, "raw", order, NoFilter, "noop") : order \in RegistryOrders}
    \cup {HookArgs(StarName, "raw", 0, NoFilter, "noop")}

RegistryModuleArgs == {HookArgs(CamelSA, "raw", 0, NoFilter, "noop")}

InitRegistry == Constructed(0)

HookY == \E a \in RegistryArgs : DoHook(a, MaxHooks)
ModuleHookY == \E a \in RegistryModuleArgs : DoWrapperHook("M1", a, MaxHooks)
UnhookY == \E r \in 1..MaxRefs : DoUnhook(r)
LoadY == DoLoad("M1", Constructor("M1"))
UnloadY == destructorCalls["M1"] < MaxLoads /\ DoUnload("M1")
SetProtocolVersionY == \E v \in {0} \cup MappedVersions : DoSetProtocolVersion(v)

NextRegistry ==
  \/ HookY
  \/ ModuleHookY
  \/ UnhookY
  \/ LoadY
  \/ UnloadY
  \/ SetProtocolVersionY

SpecRegistry == InitRegistry /\ [][NextRegistry]_vars

---------------------------------------------------------------------------
(* SpecWrite: synthetic messages.  A dispatcher with a known protocol     *)
(* version, with or without a connection; hooks that take or refuse fake  *)
(* messages; write with message names and with raw buffers.               *)

AnyFake == [fake |-> "null"]

WriteHookArgs ==
  {HookArgs(NameSA, "raw", 0, AnyFake, cb) : cb \in {"noop", "false", "newbuf"}}
    \cup {HookArgs(NameSA, "1", 0, [fake |-> "true"], "mutate"),
          HookArgs(NameSA, "raw", 0, NoFilter, "false")}

WriteInputs ==
  {WriteArgs(<<>>, NameSA, "1", <<9>>), WriteArgs(<<>>, CamelSA, "*", <<8>>),
   WriteArgs(<<>>, NameSX, "1", <<9>>), WriteArgs(<<>>, NameSA, "2", <<9>>),
   WriteArgs(MsgA(7), <<>>, "", <<>>)}

InitWrite ==
  \E linked \in BOOLEAN :
    ConstructedWith(1, [Handshaken EXCEPT !.linked = linked,
                                          !.events = Len(Handshaken.wire),
                                          !.input = Plain(Key(6))])

HookW == \E a \in WriteHookArgs : DoHook(a, MaxHooks - 1)
WriteW == \E outgoing \in BOOLEAN, args \in WriteInputs : DoWrite(outgoing, args)

NextWrite ==
  \/ HookW
  \/ WriteW

SpecWrite == InitWrite /\ [][NextWrite]_vars

---------------------------------------------------------------------------
(* Vocabulary of the properties *)

Pos(seq, x) == CHOOSE i \in 1..Len(seq) : seq[i] = x

CallHooks(calls) == [i \in 1..Len(calls) |-> calls[i].hook]

MergedFor(c) == iterateHooks(RegGet(hooks, Star), RegGet(hooks, c))

---------------------------------------------------------------------------
(* C1: for any registry contents and any opcode c, the merged iteration   *)
(* over the group lists of '*' and of c yields every hook of both lists   *)
(* exactly once, in non-decreasing order value, '*' hooks before the      *)
(* hooks of c at equal order, hooks of one group in registration order;   *)
(* a message of opcode c fires its hooks in that sequence.                *)
C1_MergedIteration ==
  \A c \in (DOMAIN hooks \ {Star}) \cup {CodeA} :
    LET m == MergedFor(c)
        both == Flat(RegGet(hooks, Star)) \o Flat(RegGet(hooks, c))
    IN /\ Len(m) = Len(both)
       /\ Range(m) = Range(both)
       /\ Cardinality(Range(m)) = Len(m)
       /\ \A i, j \in 1..Len(m) :
            i < j =>
              /\ heap[m[i]].order <= heap[m[j]].order
              /\ heap[m[i]].order = heap[m[j]].order
                   => ~(heap[m[i]].code # Star /\ heap[m[j]].code = Star)
              /\ (heap[m[i]].order = heap[m[j]].order /\ heap[m[i]].code = heap[m[j]].code)
                   => Pos(regOrder, m[i]) < Pos(regOrder, m[j])
       /\ (last.op = "handle" /\ run.exit = "end" /\ ReadUInt16LE(run.msg, 2) = c)
            => CallHooks(run.calls) = m

\* G10, C5, G5, C10 registered in that sequence fire as G5, C5, G10, C10
C1_Example ==
  /\ regOrder = <<1, 2, 3, 4>>
  /\ heap[1].code = Star /\ heap[1].order = 10
  /\ heap[2].code = CodeA /\ heap[2].order = 5
  /\ heap[3].code = Star /\ heap[3].order = 5
  /\ heap[4].code = CodeA /\ heap[4].order = 10
  /\ Live(hooks) = {1, 2, 3, 4}
  /\ last.op = "handle"
  /\ CallHooks(run.calls) = <<3, 2, 1, 4>>

---------------------------------------------------------------------------
\* where a hook sits in a registry: code, index and order of its group
Places(reg, r) ==
  {<<p[1], p[2], reg[p[1]][p[2]].order>> :
     p \in {q \in (DOMAIN reg) \X (1..MaxRefs) :
              q[2] <= Len(reg[q[1]]) /\ r \in Range(reg[q[1]][q[2]].hooks)}}

\* a comes before b in their common group
Before(reg, a, b) ==
  \E c \in DOMAIN reg : \E i \in 1..Len(reg[c]) :
    LET hs == reg[c][i].hooks
    IN a \in Range(hs) /\ b \in Range(hs) /\ Pos(hs, a) < Pos(hs, b)

---------------------------------------------------------------------------
(* C4: every request queued by hook() while the protocol version was 0    *)
(* is a live registry entry right after setProtocolVersion(v), and the    *)
(* requests were inserted in the order of their registration.  Stated     *)
(* for the versions v the codec has a map for, where the queue is meant   *)
(* to be drained.                                                         *)
C4_QueuedBecomeLive ==
  [][(last'.op = "setProtocolVersion" /\ protocolVersion' \in MappedVersions)
       => /\ \A i \in 1..Len(queuedHooks) : queuedHooks[i].hook \in Live(hooks')
          /\ \A i, j \in 1..Len(queuedHooks) :
               i < j => Pos(regOrder', queuedHooks[i].hook) < Pos(regOrder', queuedHooks[j].hook)]_vars

(* C5: while the protocol version is 0, hook() returns a handle, appends  *)
(* exactly one request, for that handle, to the end of the queued hooks,  *)
(* and leaves the registry as it was.                                     *)
C5_HookWhilePending ==
  [][(last'.op = "hook" /\ protocolVersion = 0)
       => /\ last'.ref # 0 /\ ~last'.threw
          /\ Len(queuedHooks') = Len(queuedHooks) + 1
          /\ SubSeq(queuedHooks', 1, Len(queuedHooks)) = queuedHooks
          /\ queuedHooks'[Len(queuedHooks')].hook = last'.ref
          /\ ~IsQueued(last'.ref) /\ last'.ref \notin Live(hooks)
          /\ hooks' = hooks]_vars

\* a second request queued behind the first, the registry still empty
C5_Witness ==
  /\ last.op = "hook" /\ protocolVersion = 0
  /\ hooks = <<>>
  /\ Len(queuedHooks) = 2
  /\ queuedHooks[2].hook = last.ref

(* C6: a handle passed to unhook() while its request was pending and the  *)
(* protocol version unknown is no longer queued, never enters the         *)
(* registry and is never invoked.                                         *)
C6_UnhookPending ==
  \A r \in unhooked :
    /\ ~IsQueued(r)
    /\ r \notin Live(hooks)
    /\ r \notin Range(CallHooks(run.calls))

(* C7: unhook(handle) of a live hook removes that hook and no other, the  *)
(* others keeping their places; unhook of a handle that is not in the     *)
(* registry changes nothing; neither raises.                              *)
C7_UnhookLive ==
  [][last'.op = "unhook"
       => /\ ~last'.threw
          /\ IF last'.ref \in Live(hooks)
             THEN /\ Live(hooks') = Live(hooks) \ {last'.ref}
                  /\ \A r \in Live(hooks') : Places(hooks', r) = Places(hooks, r)
                  /\ \A a, b \in Live(hooks') : Before(hooks', a, b) <=> Before(hooks, a, b)
             ELSE hooks' = hooks]_vars

---------------------------------------------------------------------------
(* The boolean results of one handle call *)

Booleans(calls) == SelectSeq(calls, LAMBDA c : c.result \in {"true", "false"})

LastBoolean(calls) ==
  IF Booleans(calls) = <<>> THEN "none"
  ELSE Booleans(calls)[Len(Booleans(calls))].result

Returned == run.exit \in {"noHooks", "parseFail", "end"}

C9_SilencedIffFlag ==
  Returned => run.out = (IF run.silenced THEN <<>> ELSE run.data)

(* C9: at the end of the hook chain handle returns SILENCED if and only   *)
(* if the running silenced flag is true, and the data buffer otherwise;   *)
(* with no registry entry it returns the input; on a parse failure it     *)
(* returns the current data buffer whether or not the flag is set.        *)
C9_SilencedIffFlagAtEnd ==
  /\ run.exit = "end" => run.out = (IF run.silenced THEN <<>> ELSE run.data)
  /\ run.exit = "noHooks" => run.out = run.msg
  /\ run.exit = "parseFail" => run.out = run.data

\* a message changed by one hook and silenced by another: nothing is sent
C9_Witness ==
  /\ run.exit = "end"
  /\ run.silenced /\ run.modified
  /\ run.data # run.msg
  /\ run.out = <<>> /\ run.sent = <<>>

\* every hook that ran in the last handle call has a callback that does nothing
NoOpsOnly == \A i \in 1..Len(run.calls) : heap[run.calls[i].hook].callback = "noop"

---------------------------------------------------------------------------
(* The handshake *)

Handshake(to, data) == [to |-> to, via |-> "handshake", data |-> data]

(* C13: the connection state starts at -1 and only changes -1 -> 0 (on a  *)
(* server datagram whose first u32 LE is 1), 0 -> 1 and 1 -> 2 (on a      *)
(* 128-byte server datagram); it never decreases, skips a state or leaves *)
(* 2, and the server datagram that causes a transition is forwarded       *)
(* verbatim to the client.                                                *)
C13_StateMachine ==
  /\ connection.state = -1
  /\ [][connection'.state # connection.state
          => /\ connection'.state = connection.state + 1
             /\ connection'.state <= 2
             /\ last'.op = "clientData"
             /\ IF connection.state = -1
                THEN ReadUInt32LE(connection'.input.bytes, 0) = 1
                ELSE Len(connection'.input.bytes) = KeyLength
             /\ connection'.wire = Append(connection.wire,
                                          Handshake("client", connection'.input))]_vars

---------------------------------------------------------------------------
\* the complete messages of a byte stream, in order
RECURSIVE Frames(_)
Frames(stream) ==
  LET msg == BufferPeek(stream)
  IN IF msg = <<>> THEN <<>> ELSE <<msg>> \o Frames(BufferRest(stream))

\* what the drain loops framed in one direction
FramedOf(incoming) == SelectSeq(connection.framed, LAMBDA f : f.incoming = incoming)

\* the plaintext of what the drain loops wrote to one peer
DrainedTo(to) ==
  LET w == SelectSeq(connection.wire, LAMBDA e : e.via = "drain" /\ e.to = to)
  IN [i \in 1..Len(w) |-> w[i].data.bytes]

\* C11: in steady state, for each direction, the drain loop has framed every
\* complete message received so far, in order, and the messages it wrote to
\* the peer are exactly the framed ones that were not silenced, in that order
C11_DrainOrder ==
  connection.state = 2 =>
    \A incoming \in BOOLEAN :
      LET fr == FramedOf(incoming)
          kept == SelectSeq(fr, LAMBDA f : f.result # "silenced")
      IN /\ [i \in 1..Len(fr) |-> fr[i].msg]
              = Frames(IF incoming THEN connection.fromServer ELSE connection.fromClient)
         /\ DrainedTo(IF incoming THEN "client" ELSE "server")
              = [i \in 1..Len(kept) |-> kept[i].out]

\* C12: while handle is processing a framed message nothing is sent: a
\* synthetic message a callback injects with toServer is run through the
\* chain and written to the socket only after that handle call has returned
C12_InjectedAfterHandle ==
  \A i \in DOMAIN connection.framed : connection.framed[i].sent = 0

\* C15: within one handle call, once a parsed hook has returned true, every
\* hook invoked later in the chain sees modified = true
C15_TrueMarksModified ==
  \A i, j \in DOMAIN run.calls :
    (/\ i < j
     /\ run.calls[i].result = "true"
     /\ heap[run.calls[i].hook].definitionVersion # "raw")
       => run.calls[j].modified

---------------------------------------------------------------------------
\* the buffer after the callbacks of the given calls have run on data
RECURSIVE Replayed(_, _)
Replayed(calls, data) ==
  IF calls = <<>> THEN data
  ELSE LET hk == heap[Head(calls).hook]
           changes == IF hk.definitionVersion = "raw"
                      THEN hk.callback \in {"newbuf", "mutate"}
                      ELSE hk.callback = "mutate" /\ Len(data) > 4
       IN Replayed(Tail(calls), IF changes THEN BumpLast(data) ELSE data)

(* C16: when the parse for a parsed hook fails, neither that hook nor any *)
(* later hook of the chain is invoked, handle returns the buffer as the   *)
(* hooks before left it, and nothing is raised.                           *)
C16_ParseFailureCuts ==
  (last.op = "handle" /\ run.exit = "parseFail")
    => /\ ~last.threw
       /\ run.failed \in Range(run.chain)
       /\ \A i \in 1..Len(run.calls) :
            /\ run.calls[i].hook \in Range(run.chain)
            /\ Pos(run.chain, run.calls[i].hook) < Pos(run.chain, run.failed)
       /\ run.out = Replayed(run.calls, run.msg)
       /\ run.sent = <<run.out>>

\* a raw hook replaced the buffer, the next hook's parse failed and a hook
\* that would have matched stands behind it
C16_Witness ==
  /\ last.op = "handle" /\ run.exit = "parseFail"
  /\ Len(run.chain) = 3 /\ run.failed = run.chain[2]
  /\ CallHooks(run.calls) = <<run.chain[1]>>
  /\ heap[run.chain[1]].callback = "newbuf"
  /\ heap[run.chain[3]].filter.silenced = "null"
  /\ run.out = BumpLast(run.msg)

---------------------------------------------------------------------------
\* the running values right after the k-th invocation of the last handle call
After(k) ==
  IF k < Len(run.calls)
  THEN [modified |-> run.calls[k + 1].modified, silenced |-> run.calls[k + 1].silenced,
        data |-> run.calls[k + 1].data]
  ELSE [modified |-> run.modified, silenced |-> run.silenced, data |-> run.data]

\* the last invocation made before the chain reached position q
LastCallBefore(q) ==
  CHOOSE j \in 1..Len(run.calls) :
    /\ Pos(run.chain, run.calls[j].hook) < q
    /\ \A i \in 1..Len(run.calls) :
         Pos(run.chain, run.calls[i].hook) < q => i <= j

\* the callback of the k-th invocation threw
Threw(k) == heap[run.calls[k].hook].callback \in {"throw", "throwFalse"}

(* C17: a callback that throws, raw or parsed, does not make handle       *)
(* raise; the silenced flag and the buffer are after it what they were    *)
(* before it, and every hook behind it in the chain whose filter matches  *)
(* is still invoked (up to a hook whose parse fails).                     *)
C17_ThrowContained ==
  last.op = "handle" =>
    \A k \in 1..Len(run.calls) :
      Threw(k) =>
        /\ ~last.threw
        /\ After(k).silenced = run.calls[k].silenced
        /\ After(k).data = run.calls[k].data
        /\ \A q \in 1..Len(run.chain) :
             (/\ q > Pos(run.chain, run.calls[k].hook)
              /\ (run.failed = 0 \/ q <= Pos(run.chain, run.failed))
              /\ FilterMatches(heap[run.chain[q]].filter, run.fake, run.incoming,
                               After(LastCallBefore(q)).modified,
                               After(LastCallBefore(q)).silenced))
               => run.chain[q] \in Range(CallHooks(run.calls)) \cup {run.failed}

---------------------------------------------------------------------------
\* the bytes of the message a name, a version and an event stand for, <<>>
\* when the codec has no such message or definition
Serialized(args) ==
  IF args.name \in {NameSA, CamelSA} /\ args.version \in {"1", "*"} /\ Len(args.event) = 1
  THEN <<5, 0, 18, 52>> \o args.event
  ELSE <<>>

(* C18: write with a message name serializes it, runs handle on the bytes *)
(* with incoming = ~outgoing and fake = true, and sends what handle       *)
(* returned to the server (outgoing) or the client, unless handle         *)
(* silenced it; write with a buffer sends the buffer as it is and runs no *)
(* hook; write returns false and sends nothing without a connection, on   *)
(* a serialization failure and on a silenced message.                     *)
C18_Write ==
  [][last'.op = "write"
       => LET a == run'.args
              peer == IF run'.outgoing THEN "server" ELSE "client"
              Sealed(bytes) == IF run'.outgoing
                               THEN Apply("session2", "decrypt", Plain(bytes))
                               ELSE Apply("session1", "encrypt", Plain(bytes))
              Sent(bytes) == connection'.wire =
                               Append(connection.wire,
                                      [to |-> peer, via |-> "send", data |-> Sealed(bytes)])
              Nothing == connection'.wire = connection.wire
          IN /\ ~last'.threw
             /\ \A i \in 1..Len(run'.calls) : heap'[run'.calls[i].hook].filter.fake # "false"
             /\ IF ~connection.linked
                THEN ~last'.ok /\ Nothing /\ run'.exit = "none"
                ELSE IF a.buffer # <<>>
                THEN last'.ok /\ Sent(a.buffer) /\ run'.exit = "none"
                ELSE IF Serialized(a) = <<>>
                THEN ~last'.ok /\ Nothing /\ run'.exit = "none"
                ELSE /\ run'.exit # "none"
                     /\ run'.msg = Serialized(a)
                     /\ run'.incoming = ~run'.outgoing
                     /\ run'.fake
                     /\ IF run'.out = <<>> THEN ~last'.ok /\ Nothing
                        ELSE last'.ok /\ Sent(run'.out)]_vars

\* a message written by name to the client, rewritten by a hook that takes
\* fake messages, reached the client as the hook left it
C18_Witness ==
  /\ last.op = "write" /\ last.ok
  /\ ~run.outgoing /\ run.incoming /\ run.fake
  /\ run.args.name = CamelSA
  /\ Len(run.calls) = 1
  /\ run.out = BumpLast(run.msg)
  /\ connection.wire[Len(connection.wire)] =
       [to |-> "client", via |-> "send",
        data |-> Apply("session1", "encrypt", Plain(run.out))]

---------------------------------------------------------------------------
(* C19: load(name) of a loaded module returns the recorded instance and   *)
(* does not invoke the constructor; a load whose constructor throws       *)
(* returns no instance, raises nothing and leaves the module table as it  *)
(* was; any other load records the instance.                              *)
C19_Load ==
  [][last'.op = "load"
       => /\ ~last'.threw
          /\ IF last'.mod \in DOMAIN modules
             THEN last'.ok /\ loads' = loads /\ modules' = modules
             ELSE IF run'.ctor.throws # "no"
             THEN ~last'.ok /\ modules' = modules
             ELSE /\ last'.ok /\ loads' = loads + 1
                  /\ DOMAIN modules' = DOMAIN modules \cup {last'.mod}
                  /\ \A m \in DOMAIN modules : modules'[m] = modules[m]]_vars

\* the hooks a module registered through its wrapper, live or queued
HooksOf(name, reg, queue) ==
  {r \in Live(reg) \cup {queue[i].hook : i \in 1..Len(queue)} : heap[r].moduleName = name}

(* C20: unload(name) of a loaded module leaves none of its hooks in the   *)
(* registry or in the queue, returns true and drops the module record,    *)
(* whatever its destructor does; unload(name) of a module that is not     *)
(* loaded returns false and leaves the module table, the registry and     *)
(* the queued hooks as they were.                                         *)
C20_Unload ==
  [][last'.op = "unload"
       => /\ ~last'.threw
          /\ IF last'.mod \in DOMAIN modules
             THEN /\ last'.ok
                  /\ last'.mod \notin DOMAIN modules'
                  /\ HooksOf(last'.mod, hooks', queuedHooks') = {}
             ELSE /\ ~last'.ok
                  /\ modules' = modules
                  /\ hooks' = hooks
                  /\ queuedHooks' = queuedHooks]_vars

---------------------------------------------------------------------------
(* C21: after reset() the module table and the registry are empty and the *)
(* destructor of every module that was loaded has run exactly once more.  *)
C21_Reset ==
  [][last'.op = "reset"
       => /\ ~last'.threw
          /\ modules' = <<>>
          /\ hooks' = <<>>
          /\ \A m \in ModuleNames :
               destructorCalls'[m] =
                 IF m \in DOMAIN modules /\ modules[m].destructor # "none"
                 THEN destructorCalls[m] + 1
                 ELSE destructorCalls[m]]_vars

---------------------------------------------------------------------------
(* C22: the close of either socket leaves neither socket open; the first  *)
(* close resets the dispatcher, so that both maps are empty and every     *)
(* loaded module's destructor has run once more, and the close event      *)
(* that follows on the other socket leaves the dispatcher alone.          *)
C22_CloseOnce ==
  [][last'.op \in {"socketClose", "clientClose"}
       => /\ ~last'.threw
          /\ connection'.socket # "open" /\ connection'.client # "open"
          /\ ~connection'.dispatch
          /\ IF connection.dispatch
             THEN /\ modules' = <<>> /\ hooks' = <<>>
                  /\ \A m \in ModuleNames :
                       destructorCalls'[m] =
                         IF m \in DOMAIN modules /\ modules[m].destructor # "none"
                         THEN destructorCalls[m] + 1
                         ELSE destructorCalls[m]
             ELSE /\ modules' = modules /\ hooks' = hooks
                  /\ destructorCalls' = destructorCalls]_vars

---------------------------------------------------------------------------
\* how many of the messages ms a stream of n bytes holds completely
RECURSIVE Complete(_, _)
Complete(ms, n) ==
  IF ms = <<>> \/ Len(Head(ms)) > n THEN 0
  ELSE 1 + Complete(Tail(ms), n - Len(Head(ms)))

\* the drain loop of one direction has yielded exactly the messages of ms
\* that the bytes received so far hold completely, and keeps the rest
Reassembled(incoming, received, buffer, ms) ==
  LET k == Complete(ms, Len(received))
      fr == FramedOf(incoming)
  IN /\ [i \in 1..Len(fr) |-> fr[i].msg] = SubSeq(ms, 1, k)
     /\ Concat(SubSeq(ms, 1, k)) \o buffer = received
     /\ BufferPeek(buffer) = <<>>

(* C23: whatever the places at which a sequence of well-formed messages   *)
(* is cut into datagrams, the write/read loop yields exactly the messages *)
(* received completely so far, each whole and in order, and read gives    *)
(* nothing while only part of a message is buffered.                      *)
C23_Framing ==
  /\ ~last.threw
  /\ \A ms \in MessageSeqs(ClientMessages) :
       IsPrefix(connection.fromClient, Concat(ms))
         => Reassembled(FALSE, connection.fromClient, connection.clientBuffer, ms)
  /\ \A ms \in MessageSeqs(ServerMessages) :
       IsPrefix(connection.fromServer, Concat(ms))
         => Reassembled(TRUE, connection.fromServer, connection.serverBuffer, ms)

\* two datagrams: three bytes of one message, then its last two bytes
\* together with the whole of the next message
C23_Witness ==
  /\ last.op = "socketData"
  /\ connection.fromServer = <<>>
  /\ connection.fromClient = MsgA(7) \o MsgOther
  /\ connection.input = FromClient(SubSeq(MsgA(7), 4, 5) \o MsgOther)
  /\ connection.events = Len(Handshaken.wire) + 2
  /\ [i \in 1..Len(connection.framed) |-> connection.framed[i].msg] = <<MsgA(7), MsgOther>>

---------------------------------------------------------------------------
\* how many of the first i characters of name are upper-case letters
Uppers(name, i) == Cardinality({j \in 1..i : IsUpper(name[j])})

\* out is name in upper case with '_' before each letter that was upper-case
Underscored(name, out) ==
  /\ Len(out) = Len(name) + Uppers(name, Len(name))
  /\ \A i \in 1..Len(name) :
       /\ out[i + Uppers(name, i)] = ToUpper(name[i])
       /\ IsUpper(name[i]) => out[i + Uppers(name, i) - 1] = "_"

\* what normalizeName made of the name it was given
Normalized ==
  last.op = "normalizeName" =>
    LET name == run.args.name
    IN /\ name = SpecialName => run.out = SpecialNormalized
       /\ (name # SpecialName /\ "_" \notin Range(name)) => Underscored(name, run.out)
       /\ "_" \in Range(name) => run.out = name

\* normalizeName applied to its own latest result
Renormalized ==
  /\ last.op = "normalizeName" /\ last'.op = "normalizeName"
  /\ run'.args.name = run.out

(* C24 as stated: the exceptional name, the rule for names without        *)
(* underscore, names with an underscore unchanged, and every result is    *)
(* a fixed point.                                                         *)
C24_NormalizeIdempotent ==
  []Normalized /\ [][Renormalized => run'.out = run.out]_vars

(* C24, amended: the exceptional name, the rule for names without         *)
(* underscore, names with an underscore unchanged; a result is a fixed    *)
(* point when it contains an underscore, which is the case for every name *)
(* that holds an upper-case letter or an underscore.                      *)
C24_Normalize ==
  /\ []Normalized
  /\ [](last.op = "normalizeName" =>
          ((\E i \in DOMAIN run.args.name : IsUpper(run.args.name[i]) \/ run.args.name[i] = "_")
             => "_" \in Range(run.out)))
  /\ [][(Renormalized /\ "_" \in Range(run.out)) => run'.out = run.out]_vars

\* a camel-case name was normalized
C24_Witness ==
  /\ last.op = "normalizeName"
  /\ run.args.name = CamelSA
  /\ run.out = NameSA

---------------------------------------------------------------------------
---------------------------------------------------------------------------
(* C26: every accepted socket has a dispatcher of its own; an event of    *)
(* one connection leaves the hooks, queued hooks, modules, protocol       *)
(* version and connection state of every other connection as they were,   *)
(* and handle invokes only hooks registered on the connection whose       *)
(* message it is given.                                                   *)
C26_Isolated ==
  /\ [](\A j, k \in Accepted : j # k => server.owner[j] # server.owner[k])
  /\ [][\A j \in Accepted :
          j # server'.event.conn => DispatchOf(server', j) = DispatchOf(server, j)]_vars
  /\ [](\A i \in DOMAIN server.event.fired : server.event.fired[i] = server.event.conn)

\* both connections hold a live hook for the same message; a message of
\* the second has just been handled and its own hook was invoked
C26_Witness ==
  /\ Len(server.owner) = 2
  /\ \A k \in Accepted : CodeA \in DOMAIN DispatchOf(server, k).hooks
  /\ server.event = [conn |-> 2, op |-> "handle", fired |-> <<2>>]

---------------------------------------------------------------------------
(* C27: a handle handed out while the protocol version was unknown is     *)
(* the live hook once the queue has been drained; unhook of a live handle *)
(* takes it out of the registry, it does not come back, and handle        *)
(* invokes live hooks only.                                               *)
C27_StableHandle ==
  [][/\ ((last'.op \in {"setProtocolVersion", "handle"}
            /\ protocolVersion = 0 /\ protocolVersion' \in MappedVersions)
           => \A i \in 1..Len(queuedHooks) :
                /\ queuedHooks[i].hook \in Live(hooks')
                /\ heap'[queuedHooks[i].hook].made)
     /\ ((last'.op = "unhook" /\ last'.ref \in Live(hooks))
           => last'.ref \notin Live(hooks'))
     /\ (\A r \in 1..nextRef :
           (r \notin Live(hooks) /\ ~IsQueued(r)) => r \notin Live(hooks'))
     /\ (last'.op = "handle" => Range(CallHooks(run'.calls)) \subseteq Live(hooks'))]_vars

---------------------------------------------------------------------------
\* the last handle call invoked the callback of hook r
Invoked(r) == r \in Range(CallHooks(run.calls))

\* the chain of the last handle call got as far as its q-th hook
Reached(q) == run.failed = 0 \/ q <= Pos(run.chain, run.failed)

\* the values of modified and silenced when the chain reached its q-th hook
FlagsAt(q) ==
  IF \E j \in 1..Len(run.calls) : Pos(run.chain, run.calls[j].hook) < q
  THEN After(LastCallBefore(q))
  ELSE [modified |-> FALSE, silenced |-> FALSE, data |-> run.msg]

\* a filter field is null or equals the flag
Agrees(value, flag) == value = "null" \/ value = Tri(flag)

\* the filter of the q-th hook of the chain agrees with the four flags
Passes(q) ==
  LET filter == heap[run.chain[q]].filter
  IN /\ Agrees(filter.fake, run.fake)
     /\ Agrees(filter.incoming, run.incoming)
     /\ Agrees(filter.modified, FlagsAt(q).modified)
     /\ Agrees(filter.silenced, FlagsAt(q).silenced)

\* a hook with the default filter sees neither fake nor silenced messages
DefaultSeesReal ==
  \A k \in 1..Len(run.calls) :
    heap[run.calls[k].hook].filter = DefaultFilter => ~run.fake /\ ~run.calls[k].silenced

(* C28 as stated: a hook the chain reaches is invoked exactly when its    *)
(* filter agrees with the four flags at that moment.                      *)
C28_InvokedIffFilter ==
  last.op = "handle" =>
    /\ \A q \in 1..Len(run.chain) : Reached(q) => (Invoked(run.chain[q]) <=> Passes(q))
    /\ DefaultSeesReal

(* C28, amended: a hook the chain reaches is invoked exactly when its     *)
(* filter agrees with the four flags at that moment and, for a parsed     *)
(* hook, the message parses under its definition version; hooks behind a  *)
(* parse failure are not reached and not invoked.                         *)
C28_InvokedIffFilterAndParse ==
  last.op = "handle" =>
    /\ \A q \in 1..Len(run.chain) :
         Invoked(run.chain[q]) <=> (Reached(q) /\ Passes(q) /\ run.chain[q] # run.failed)
    /\ \A q \in 1..Len(run.chain) : run.chain[q] = run.failed => Passes(q)
    /\ DefaultSeesReal

\* a hook that wants silenced messages ran behind one that silenced, and a
\* hook with the default filter between them was passed over
C28_Witness ==
  /\ last.op = "handle" /\ ~run.fake
  /\ Len(run.chain) = 3 /\ run.failed = 0
  /\ heap[run.chain[2]].filter = DefaultFilter
  /\ heap[run.chain[3]].filter.silenced = "true"
  /\ CallHooks(run.calls) = <<run.chain[1], run.chain[3]>>
  /\ run.calls[2].silenced

---------------------------------------------------------------------------
\* the k-th invocation was of a raw hook whose callback returned a Buffer
\* other than the one it was given
ReturnedBuffer(k) ==
  /\ heap[run.calls[k].hook].definitionVersion = "raw"
  /\ run.calls[k].result = "buffer"

\* the bytes of that Buffer
BufferOf(k) == RawCallback(heap[run.calls[k].hook].callback, run.calls[k].data).buffer

(* C29: the buffer a raw hook returns in place of the current one is the  *)
(* message right after that hook, hence for the next hook and, when it    *)
(* was the last to run, for handle's result; modified is then true when   *)
(* it already was or when length or bytes differ; and modified, once      *)
(* true, is true for every later hook and at the end of the call.         *)
C29_RawReplaces ==
  last.op = "handle" =>
    /\ ~last.threw
    /\ \A k \in 1..Len(run.calls) :
         /\ ReturnedBuffer(k) =>
              /\ After(k).data = BufferOf(k)
              /\ After(k).modified = (run.calls[k].modified \/ BufferOf(k) # run.calls[k].data)
              /\ (k = Len(run.calls) /\ ~run.silenced) => run.out = BufferOf(k)
         /\ run.calls[k].modified => After(k).modified

---------------------------------------------------------------------------
---------------------------------------------------------------------------
\* the four keys of a session that were copied from a 128-byte datagram
KeysSet(session) ==
  {<<"client", i>> : i \in {j \in 1..2 : Len(session.clientKeys[j]) = KeyLength}}
    \cup {<<"server", i>> : i \in {j \in 1..2 : Len(session.serverKeys[j]) = KeyLength}}

AllKeys == {<<side, i>> : side \in {"client", "server"}, i \in 1..2}

(* C31: init() of session1 and of session2 has been called exactly once   *)
(* when the connection is in state 2 and not at all before; in state 2    *)
(* all four keys of both sessions are set from 128-byte datagrams, and    *)
(* the two sessions hold the same keys.                                   *)
C31_InitWithAllKeys ==
  /\ connection.session1.inits = IF connection.state = 2 THEN 1 ELSE 0
  /\ connection.session2.inits = IF connection.state = 2 THEN 1 ELSE 0
  /\ connection.state = 2
       => /\ KeysSet(connection.session1) = AllKeys
          /\ KeysSet(connection.session2) = AllKeys
          /\ connection.session1 = connection.session2

\* what the handshake does guarantee: init once, at the transition to state
\* 2, with both server keys set and the two sessions alike
InitOnceServerKeys ==
  /\ connection.session1.inits = IF connection.state = 2 THEN 1 ELSE 0
  /\ connection.session1 = connection.session2
  /\ connection.state = 2
       => {<<"server", 1>>, <<"server", 2>>} \subseteq KeysSet(connection.session1)

---------------------------------------------------------------------------
\* the cipher calls of one session on what a socket delivered, and on what
\* is about to be written to a socket
Reads(session) ==
  SelectSeq(connection.trail, LAMBDA e : e.step = session /\ e.by = "read")

Seals(session) ==
  SelectSeq(connection.trail, LAMBDA e : e.step = session /\ e.by \in {"drain", "send"})

\* the handle calls of the drain loops
Handles == SelectSeq(connection.trail, LAMBDA e : e.step = "dispatch")

\* what was written to one socket in steady state
SteadyWire(to) ==
  SelectSeq(connection.wire, LAMBDA e : e.to = to /\ e.via \in {"drain", "send"})

\* the bytes a sequence of trail entries gave back
Outputs(entries) == Concat([i \in 1..Len(entries) |-> entries[i].out.bytes])

\* one direction of the pipeline: the session that deciphers what the source
\* socket delivers, the buffer that frames it, and the session (the other
\* direction's) that seals what is written back to that socket
Piped(session, op, back, received, buffer, incoming, to) ==
  /\ \A i \in 1..Len(Reads(session)) :
        Reads(session)[i].op = op /\ Reads(session)[i].out.key = <<>>
  /\ Outputs(Reads(session)) = received
  /\ Concat([i \in 1..Len(FramedOf(incoming)) |-> FramedOf(incoming)[i].msg]) \o buffer
       = Outputs(Reads(session))
  /\ Len(Seals(session)) = Len(SteadyWire(to))
  /\ \A i \in 1..Len(Seals(session)) :
        /\ Seals(session)[i].op = back
        /\ Seals(session)[i].data.key = <<>>
        /\ SteadyWire(to)[i].data = Seals(session)[i].out
        /\ SteadyWire(to)[i].via = Seals(session)[i].by
        /\ SteadyWire(to)[i].data.key = <<<<session, back>>>>

(* C32: in state 2 every datagram read from the client socket is          *)
(* deciphered by session1, and every one read from the server socket by   *)
(* session2, before it is framed; every message written to the client     *)
(* socket, by a drain loop or by sendClient, went through session1 and     *)
(* every one written to the server socket through session2, exactly once  *)
(* and in the order of the writes; and each message a drain loop writes   *)
(* went through handle between its two cipher calls.                      *)
C32_CipherPipeline ==
  /\ connection.state = 2
  /\ Piped("session1", "decrypt", "encrypt", connection.fromClient,
           connection.clientBuffer, FALSE, "client")
  /\ Piped("session2", "encrypt", "decrypt", connection.fromServer,
           connection.serverBuffer, TRUE, "server")
  /\ Len(Handles) = Len(connection.framed)
  /\ \A i \in 1..Len(Handles) : Handles[i].data.bytes = connection.framed[i].msg
  /\ \A i \in 1..Len(connection.trail) :
        connection.trail[i].by = "drain" /\ connection.trail[i].step # "dispatch"
          => /\ i > 1
             /\ connection.trail[i - 1].step = "dispatch"
             /\ connection.trail[i - 1].out = connection.trail[i].data

\* a message was injected towards the server while both drain loops had
\* forwarded messages, one of them from a datagram that held two
C32_Witness ==
  /\ \E i \in 1..Len(SteadyWire("server")) : SteadyWire("server")[i].via = "send"
  /\ \E i \in 1..Len(SteadyWire("server")) : SteadyWire("server")[i].via = "drain"
  /\ \E i \in 1..Len(SteadyWire("client")) : SteadyWire("client")[i].via = "drain"
  /\ Len(FramedOf(FALSE)) > Len(Reads("session1"))

---------------------------------------------------------------------------
\* whether hook() and unhook() take their pending branch in a state with this
\* protocol version
Pending(version) == version = 0

(* C33: setProtocolVersion(0) changes nothing: the registry, the queue of *)
(* pending requests and the opcode map are as before the call, and hook() *)
(* and unhook() take the same branch, live or pending, as before it.      *)
C33_ZeroIsNoOp ==
  [][last'.op = "setProtocolVersion" /\ protocolVersion' = 0
       => /\ hooks' = hooks
          /\ queuedHooks' = queuedHooks
          /\ protocolMap' = protocolMap
          /\ Pending(protocolVersion') = Pending(protocolVersion)]_vars

\* the part that holds: the registry and the queue are left alone
ZeroKeepsHooks ==
  [][last'.op = "setProtocolVersion" /\ protocolVersion' = 0
       => hooks' = hooks /\ queuedHooks' = queuedHooks /\ heap' = heap]_vars

---------------------------------------------------------------------------
\* the handshake datagrams the handlers have no branch for, by the state they
\* arrive in: op is the handler, data the datagram
Unexpected(op, state, data) ==
  \/ op = "socketData" /\ state = -1
  \/ op \in {"socketData", "clientData"} /\ state \in {0, 1} /\ Len(data.bytes) # KeyLength
  \/ /\ op = "clientData" /\ state = -1
     /\ Len(data.bytes) >= 4 /\ ReadUInt32LE(data.bytes, 0) # 1

(* C34: during the handshake a client datagram in state -1, a datagram of *)
(* either peer in state 0 or 1 that is not 128 bytes long, and a server   *)
(* datagram in state -1 whose first u32 LE is not 1 are dropped: nothing  *)
(* is written to either socket, no key of either session changes and the  *)
(* state stays as it is.                                                  *)
C34_Dropped ==
  [][Unexpected(last'.op, connection.state, connection'.input)
       => /\ connection'.wire = connection.wire
          /\ connection'.session1 = connection.session1
          /\ connection'.session2 = connection.session2
          /\ connection'.state = connection.state
          /\ ~last'.threw]_vars

\* the server's junk arrived between its two keys, after the client's first
\* key, and left everything in place
C34_Witness ==
  /\ last.op = "clientData"
  /\ connection.input = Plain(Junk)
  /\ connection.state = 1
  /\ connection.session1.clientKeys[1] = Key(3)
  /\ Len(connection.wire) = 3

---------------------------------------------------------------------------
(* C35: whenever the protocol version is non-zero the queue of pending    *)
(* requests is empty, and hook() called with a non-zero protocol version  *)
(* returns a hook that is in the registry.                                *)
C35_NoQueueOnceVersioned ==
  /\ [](protocolVersion # 0 => queuedHooks = <<>>)
  /\ [][last'.op = "hook" /\ protocolVersion # 0
          => ~last'.threw /\ last'.ref \in Live(hooks') /\ queuedHooks' = <<>>]_vars

---------------------------------------------------------------------------
(* C36: reset() leaves neither a live hook nor a pending request behind,  *)
(* and no handle call after it invokes a hook that was registered, live   *)
(* or queued, before it.                                                  *)
C36_ResetDropsPending ==
  [][/\ last'.op = "reset" => Live(hooks') = {} /\ queuedHooks' = <<>>
     /\ last'.op = "handle"
          => \A i \in 1..Len(run'.calls) : run'.calls[i].hook \notin cleared']_vars

---------------------------------------------------------------------------
\* hooks tagged with a module that is not loaded and that no unload revoked:
\* what constructors that threw have registered
Orphans ==
  {r \in 1..nextRef : heap[r].moduleName \notin {""} \cup DOMAIN modules /\ r \notin revoked}

FailedLoadRecordsNothing ==
  [][(last'.op = "load" /\ run'.ctor.throws = "error" /\ last'.mod \notin DOMAIN modules)
       => ~last'.ok /\ ~last'.threw /\ modules' = modules]_vars

---------------------------------------------------------------------------
\* two hooks of the same order under the same code
SameGroup(a, b) == heap[a].code = heap[b].code /\ heap[a].order = heap[b].order

\* the hooks handle invoked behind the call at which a callback removed them
InvokedAfterRemoval(r) ==
  {h \in UNION {r.removed[k].hooks : k \in 1..Len(r.removed)} :
     \E k \in 1..Len(r.removed), i \in 1..Len(r.calls) :
        h \in r.removed[k].hooks /\ r.calls[i].hook = h /\ i > r.removed[k].at}

(* C38: a hook that a callback removes from the registry while handle is  *)
(* processing a message, by unhook or by unloading its module, and that   *)
(* had not been invoked for the message yet, is not invoked for it,       *)
(* whether it is in the calling hook's own group or in a later one.       *)
C38_RemovedNotInvoked ==
  [][last'.op = "handle" => InvokedAfterRemoval(run') = {}]_vars

\* the removal does take effect for the groups the chain has not come to
RemovedFromLaterGroups ==
  [][last'.op = "handle"
       => \A k \in 1..Len(run'.removed), i \in 1..Len(run'.calls) :
             (/\ run'.calls[i].hook \in run'.removed[k].hooks
              /\ i > run'.removed[k].at)
               => SameGroup(run'.calls[i].hook, run'.removed[k].by)]_vars

\* a callback removed a hook of a later group, which was then left out
LaterGroupLeftOut ==
  /\ last.op = "handle"
  /\ \E k \in 1..Len(run.removed) :
        \E h \in run.removed[k].hooks :
           /\ ~SameGroup(h, run.removed[k].by)
           /\ \A i \in 1..Len(run.calls) : run.calls[i].hook # h

---------------------------------------------------------------------------
\* Connection.close has run: it has released both sockets
Released == connection.socket # "open" /\ connection.client # "open"

(* C39: once a socket has closed and Connection.close has run, a data     *)
(* event on the remaining socket, in whichever state, is dropped without  *)
(* error: the handler returns normally, writes to no socket, and does not *)
(* call the dispatcher once it is released.                               *)
C39_DataAfterClose ==
  [][(/\ last'.op \in {"socketData", "clientData"} /\ Released
      /\ Len(connection'.input.bytes) >= 4)
       => /\ ~last'.threw
          /\ connection'.wire = connection.wire
          /\ ~connection.dispatch
               => SelectSeq(connection'.trail, LAMBDA e : e.step = "dispatch")
                    = SelectSeq(connection.trail, LAMBDA e : e.step = "dispatch")]_vars

\* the part that holds: in steady state such data is deciphered, framed and
\* dropped
SteadyDataAfterClose ==
  [][(last'.op \in {"socketData", "clientData"} /\ Released /\ connection.state = 2)
       => /\ ~last'.threw
          /\ connection'.wire = connection.wire
          /\ Len(connection'.trail) = Len(connection.trail) + 1
          /\ Len(connection'.framed) > Len(connection.framed)]_vars

====
